---- MODULE Spec2Model ----
(***************************************************************************)
(* State-machine model of the go-torrent download core: the piece/block   *)
(* model (internal/download/piece.go), the piece manager                  *)
(* (internal/download/manager.go), the download manager                   *)
(* (internal/download/downloader.go) and the peer session / message       *)
(* handler / pool (internal/peer).                                         *)
(*                                                                         *)
(* Abstractions.                                                           *)
(*  - A block payload of the right length is one value of Vals; value 0   *)
(*    is the all-zero payload (what make([]byte, n) yields).               *)
(*  - SHA-1 is an injective function of the assembled bytes.               *)
(*  - Time is counted in minutes.                                          *)
(*  - Go's sync.RWMutex aborts the process ("fatal error: sync: Unlock of *)
(*    unlocked RWMutex") when Unlock is called on a mutex held by RLock.   *)
(*    The flag fatalExits selects whether that abort is modelled (Spec)    *)
(*    or whether the handler's control flow is followed past the faulty    *)
(*    unlock (SpecLogic); lockFault records that such an unlock happened.  *)
(*    The same flag governs the out-of-range panic of Message.Serialize    *)
(*    in Session.Start, and the index-out-of-range panic of                *)
(*    FileStorage.WritePiece on a storage whose files were never opened:  *)
(*    past the fault the piece counts as written.                         *)
(*  - A request handed to Client.SendRequest is recorded as the triple    *)
(*    (index, begin, length); its bytes are the subject of Serialize.      *)
(***************************************************************************)
EXTENDS Integers, Sequences, FiniteSets, TLC

VARIABLES
    torrent,        \* the parsed descriptor (immutable)
    peers,          \* peer addresses the tracker hands out (immutable)
    fatalExits,     \* TRUE: a wrong-mode Unlock or a panic terminates
                    \* the process
    Pieces,         \* PieceManager.Pieces: index -> Piece
    Downloaded,     \* PieceManager.Downloaded (key set)
    InProgress,     \* PieceManager.InProgress (key set)
    Missing,        \* PieceManager.Missing (key set)
    Completed,      \* PieceManager.Completed
    activePieces,   \* DownloadManager.activePieces: index -> addr
    pieceTimeouts,  \* DownloadManager.pieceTimeouts: index -> deadline
    Stats,          \* DownloadManager.Stats (Downloaded, PiecesCompleted)
    dmMu,           \* DownloadManager.mu: "free" or "deadlocked"
    Sessions,       \* Pool.Sessions (key set)
    sess,           \* addr -> [Choked, pieces, onPiece, sent]; onPiece is the
                    \* set of pieces the registered callback is bound to
    disk,           \* pieces persisted by FileStorage.WritePiece
    now,            \* wall clock, minutes
    halted,         \* the process was terminated by the runtime
    lockFault,      \* a mutex was released in a mode it was not held in
    calls,          \* callbacks / broadcasts issued so far
    lastReq,        \* the last direct Session.RequestBlock call and its result
    lastMsg,        \* the last message handed to a session's handleMessage
    run,            \* DownloadManager life cycle: ctx ("live"/"cancelled"),
                    \* which workers still run, whether Stop has returned
    conn,           \* addr -> [open, reading, keepAlive]: the socket, the
                    \* messageLoop goroutine, the keepAliveRoutine goroutine
    lastConnect,    \* the last Pool.Connect call: its candidates, budget,
                    \* return value and the pool before it
    dial,           \* addr -> the connection attempt of NewClient: its stage,
                    \* the bytes written, the peer's reply
    fnIn,           \* argument of the library function under examination
    fnOut           \* what that function has produced so far

vars == <<torrent, peers, fatalExits, Pieces, Downloaded, InProgress, Missing,
          Completed, activePieces, pieceTimeouts, Stats, dmMu, Sessions, sess,
          disk, now, halted, lockFault, calls, lastReq, lastMsg, run, conn,
          lastConnect, dial, fnIn, fnOut>>

----------------------------------------------------------------------------
(* Bounds of the exploration *)

\* blocks a run may accept (caps Stats.Downloaded and Piece.Downloaded)
MaxBlocks == 3
\* blocks a run on the six-piece torrent may accept
WideBlocks == 1
\* times the clock is advanced
MaxAdvance == 2

(* Program constants *)

\* piece.go:13  BlockSize = 16 * 1024
BlockSize == 16384
\* downloader.go:240  maxConcurrent := 5
MaxConcurrent == 5
\* downloader.go:81  pieceTimeout: 5 * time.Minute
PieceTimeout == 5
\* minutes by which the clock is advanced at a time
TimeStep == 3

\* Block.Data is nil ({}) or a payload ({v})
NoData == {}

\* payload values: 0 is the all-zero block
Vals == {0, 1}
\* payload lengths a peer may send: a full block and a short one
Lens == {BlockSize, 1}

----------------------------------------------------------------------------
(* Torrent descriptor: internal/torrent/file.go *)

\* content[i+1][b+1] is the true payload of block b of piece i
SmallTorrent ==
    [ pieceLength |-> 32768, totalLength |-> 49152,
      content |-> << <<1, 0>>, <<1>> >> ]

\* six one-block pieces: one more than the concurrency budget
WideTorrent ==
    [ pieceLength |-> 16384, totalLength |-> 98304,
      content |-> << <<1>>, <<1>>, <<1>>, <<1>>, <<1>>, <<1>> >> ]

NumPieces(t) == Len(t.content)

PieceSize(t, index) ==
    IF index < 0 \/ index >= NumPieces(t) THEN 0
    ELSE IF index < NumPieces(t) - 1 THEN t.pieceLength
    ELSE IF t.totalLength % t.pieceLength = 0 THEN t.pieceLength
    ELSE t.totalLength % t.pieceLength

PieceIdx(t) == 0 .. NumPieces(t) - 1

\* the injective stand-in for crypto/sha1
Sha1(bytes) == <<"sha1", bytes>>

\* TorrentFile.PiecesHash[i]
PiecesHash(t, i) == Sha1(t.content[i + 1])

----------------------------------------------------------------------------
(* Piece / block model: internal/download/piece.go *)

NumBlocks(length) ==
    (length \div BlockSize) + (IF length % BlockSize # 0 THEN 1 ELSE 0)

BlockBegin(b) == b * BlockSize

BlockLength(length, b) ==
    IF b = NumBlocks(length) - 1 /\ length % BlockSize # 0
    THEN length % BlockSize
    ELSE BlockSize

\* Blocks[b+1] is the Data of block b
NewPiece(index, hash, length) ==
    [ Index |-> index, Hash |-> hash, Length |-> length,
      Blocks |-> [b \in 1 .. NumBlocks(length) |-> NoData],
      State |-> "None", Downloaded |-> 0, Requested |-> {} ]

BlockIdx(pc) == 0 .. Len(pc.Blocks) - 1

\* AddBlock without the test of the length
AddBlockMut(pc, begin, len, val) ==
    LET hit == {b \in BlockIdx(pc) : BlockBegin(b) = begin} IN
    IF hit = {} THEN [ok |-> FALSE, pc |-> pc]
    ELSE LET b == CHOOSE x \in hit : TRUE IN
         [ok |-> TRUE,
          pc |-> [pc EXCEPT !.Blocks[b + 1] = {val},
                            !.Downloaded = @ + len]]

\* Piece.AddBlock: [ok, piece]
AddBlock(pc, begin, len, val) ==
    LET hit == {b \in BlockIdx(pc) : BlockBegin(b) = begin} IN
    IF hit = {} THEN [ok |-> FALSE, pc |-> pc]
    ELSE LET b == CHOOSE x \in hit : TRUE IN
         IF len # BlockLength(pc.Length, b) THEN [ok |-> FALSE, pc |-> pc]
         ELSE [ok |-> TRUE,
               pc |-> [pc EXCEPT !.Blocks[b + 1] = {val},
                                 !.Downloaded = @ + len]]

\* Piece.IsComplete
IsComplete(pc) == pc.Length = pc.Downloaded

\* Piece.AssembleData past the IsComplete test: a zeroed buffer in which the
\* blocks that hold data are copied
AssembleData(pc) ==
    [b \in 1 .. Len(pc.Blocks) |->
        IF pc.Blocks[b] # NoData THEN CHOOSE v \in pc.Blocks[b] : TRUE ELSE 0]

\* Piece.Verify: the value it returns when the process survives the call
Verify(pc) ==
    IF ~IsComplete(pc) THEN FALSE
    ELSE Sha1(AssembleData(pc)) = pc.Hash

\* Piece.NextRequest: [b, piece]; b = -1 stands for nil
NextRequest(pc) ==
    LET cand == {b \in BlockIdx(pc) :
                    pc.Blocks[b + 1] # NoData /\ b \notin pc.Requested} IN
    IF cand = {} THEN [b |-> -1, pc |-> pc]
    ELSE LET b == CHOOSE x \in cand : \A y \in cand : x <= y IN
         [b |-> b, pc |-> [pc EXCEPT !.Requested = @ \cup {b}]]

\* Piece.ResetRequests
ResetRequests(pc) ==
    [pc EXCEPT !.Requested = {},
               !.State = IF @ = "Pending" THEN "None" ELSE @]

----------------------------------------------------------------------------
(* The mutable program state as one record, so that the methods compose *)

St ==
    [ Pieces |-> Pieces, Downloaded |-> Downloaded, InProgress |-> InProgress,
      Missing |-> Missing, Completed |-> Completed,
      activePieces |-> activePieces, pieceTimeouts |-> pieceTimeouts,
      Stats |-> Stats, dmMu |-> dmMu, Sessions |-> Sessions, sess |-> sess,
      disk |-> disk, now |-> now, halted |-> halted, lockFault |-> lockFault,
      calls |-> calls, lastReq |-> lastReq, lastMsg |-> lastMsg,
      run |-> run, conn |-> conn, dial |-> dial,
      lastConnect |-> lastConnect ]

Assign(st) ==
    /\ Pieces' = st.Pieces
    /\ Downloaded' = st.Downloaded
    /\ InProgress' = st.InProgress
    /\ Missing' = st.Missing
    /\ Completed' = st.Completed
    /\ activePieces' = st.activePieces
    /\ pieceTimeouts' = st.pieceTimeouts
    /\ Stats' = st.Stats
    /\ dmMu' = st.dmMu
    /\ Sessions' = st.Sessions
    /\ sess' = st.sess
    /\ disk' = st.disk
    /\ now' = st.now
    /\ halted' = st.halted
    /\ lockFault' = st.lockFault
    /\ calls' = st.calls
    /\ lastReq' = st.lastReq
    /\ lastMsg' = st.lastMsg
    /\ run' = st.run
    /\ conn' = st.conn
    /\ dial' = st.dial
    /\ lastConnect' = st.lastConnect

Commit(st) ==
    /\ Assign(st)
    /\ UNCHANGED <<torrent, peers, fatalExits, fnIn, fnOut>>

\* A call of a function under study: its result is recorded, the program
\* state is not touched
Returns(out) ==
    /\ fnOut' = out
    /\ Assign(St)
    /\ UNCHANGED <<torrent, peers, fatalExits, fnIn>>

\* delete(m, k) on a Go map
MapDelete(m, k) == [x \in (DOMAIN m) \ {k} |-> m[x]]

\* m[k] = v on a Go map
MapPut(m, k, v) == [x \in (DOMAIN m) \cup {k} |-> IF x = k THEN v ELSE m[x]]

----------------------------------------------------------------------------
(* Piece manager: internal/download/manager.go *)

NumP(st) == Cardinality(DOMAIN st.Pieces)

\* NewPieceManager: the pieces of the descriptor, all missing
NewPieces(t) ==
    [i \in PieceIdx(t) |-> NewPiece(i, PiecesHash(t, i), PieceSize(t, i))]

\* PieceManager.PickPiece with strategy "rarest_first".  bitfields maps each
\* unchoked session to the pieces it announced.  The candidates come out of a
\* map iteration and are ordered by sort.Slice on availability alone, so
\* pieces of equal availability come in any order: the result is the set of
\* outcomes [st, piece, fresh]; piece = -1 stands for nil, fresh tells that
\* the piece was not in progress and has been marked so.
PickPiece(st, bitfields) ==
    LET available == [i \in DOMAIN st.Pieces |->
            IF i \in st.Missing \/ i \in st.InProgress
            THEN Cardinality({a \in DOMAIN bitfields : i \in bitfields[a]})
            ELSE 0]
        candidates == {i \in DOMAIN st.Pieces :
                          available[i] > 0 /\ i \notin st.Downloaded}
        free == candidates \ st.InProgress
        first(S) == {i \in S : \A j \in S : available[i] <= available[j]}
    IN  IF candidates = {} THEN {[st |-> st, piece |-> -1, fresh |-> FALSE]}
        ELSE IF free # {}
        THEN {[st |-> [st EXCEPT !.InProgress = @ \cup {i},
                                 !.Missing = @ \ {i}],
               piece |-> i, fresh |-> TRUE] : i \in first(free)}
        ELSE {[st |-> st, piece |-> i, fresh |-> FALSE] :
                 i \in first(candidates)}

\* PieceManager.MarkPieceCompleted past the faulty unlock: [ok, st]
MarkPieceCompleted(st, i) ==
    IF i < 0 \/ i >= NumP(st) THEN [ok |-> FALSE, st |-> st]
    ELSE IF i \in st.Downloaded THEN [ok |-> TRUE, st |-> st]
    ELSE IF ~Verify(st.Pieces[i])
    THEN [ok |-> FALSE,
          st |-> [st EXCEPT !.Pieces[i] = ResetRequests(@),
                            !.InProgress = @ \ {i},
                            !.Missing = @ \cup {i}]]
    ELSE [ok |-> TRUE,
          st |-> [st EXCEPT !.Downloaded = @ \cup {i},
                            !.InProgress = @ \ {i},
                            !.Completed = @ + 1,
                            !.Pieces[i].State = "Complete"]]

\* PieceManager.AddBlock: [ok, st]
PmAddBlock(st, i, begin, len, val) ==
    IF i < 0 \/ i >= NumP(st) THEN [ok |-> FALSE, st |-> st]
    ELSE LET r == AddBlock(st.Pieces[i], begin, len, val) IN
         [ok |-> r.ok, st |-> [st EXCEPT !.Pieces[i] = r.pc]]

\* PieceManager.IsComplete (the value read before the faulty unlock)
PmIsComplete(st) == NumP(st) = st.Completed

\* PieceManager.ResetPiece
ResetPiece(st, i) ==
    IF i < 0 \/ i >= NumP(st) THEN st
    ELSE LET pc == ResetRequests(st.Pieces[i]) IN
         [st EXCEPT !.Pieces[i] = [pc EXCEPT !.State = "None"],
                    !.InProgress = @ \ {i},
                    !.Missing = @ \cup {i},
                    !.Completed = IF pc.State = "Complete" THEN @ - 1 ELSE @]

----------------------------------------------------------------------------
(* Peer session and message handler: internal/peer/handler.go, client.go and
   the Session type *)

(* Peer wire messages: message ids, Message.Serialize, ReadMessage *)

MsgChoke == 0
MsgUnchoke == 1
MsgInterested == 2
MsgNotInterested == 3
MsgHave == 4
MsgBitfield == 5
MsgRequest == 6
MsgPiece == 7
MsgCancel == 8

\* binary.BigEndian.PutUint32
BE32(n) ==
    << (n \div 16777216) % 256, (n \div 65536) % 256,
       (n \div 256) % 256, n % 256 >>

\* binary.BigEndian.Uint32 of the first four bytes
U32(bs) == bs[1] * 16777216 + bs[2] * 65536 + bs[3] * 256 + bs[4]

\* a nil *Message (keep-alive)
NilMsg == [nil |-> TRUE, ID |-> 0, Payload |-> <<>>]

\* &Message{ID: id, Payload: payload}
Msg(id, payload) == [nil |-> FALSE, ID |-> id, Payload |-> payload]

\* Message.Serialize: [panic, bytes].  The buffer is make([]byte, 1+length)
\* with length = 1+len(Payload): slicing buf[0:4] or writing buf[4] is out
\* of range for a payload shorter than 3 bytes, and copy() fills only the
\* room left behind the id byte
Serialize(m) ==
    IF m.nil THEN [panic |-> FALSE, bytes |-> <<0, 0, 0, 0>>]
    ELSE LET length == 1 + Len(m.Payload)
             size == 1 + length
         IN  IF size < 5 THEN [panic |-> TRUE, bytes |-> <<>>]
             ELSE [panic |-> FALSE,
                   bytes |-> BE32(length) \o <<m.ID>>
                             \o SubSeq(m.Payload, 1, size - 5)]

\* ReadMessage on a stream that ends after bs: [err, msg]
ReadMessage(bs) ==
    IF Len(bs) < 4 THEN [err |-> TRUE, msg |-> NilMsg]
    ELSE LET length == U32(bs) IN
         IF length = 0 THEN [err |-> FALSE, msg |-> NilMsg]
         ELSE IF Len(bs) < 4 + length THEN [err |-> TRUE, msg |-> NilMsg]
         ELSE [err |-> FALSE,
               msg |-> Msg(bs[5], SubSeq(bs, 6, 4 + length))]

(* Bitfield *)

\* 1 << k
Shl1(k) == 2 ^ k

\* Bitfield.HasPiece
BfHasPiece(bf, index) ==
    IF index < 0 \/ index >= Len(bf) * 8 THEN FALSE
    ELSE LET byteIndex == index \div 8
             offset == index % 8
         IN  ((bf[byteIndex + 1] \div Shl1(7 - offset)) % 2) # 0

BfSetPieceMut(bf, index) ==
    IF index < 0 \/ index >= Len(bf) * 8 THEN bf
    ELSE LET byteIndex == index \div 8
             offset == index % 8
             mask == Shl1(offset)
         IN  [bf EXCEPT ![byteIndex + 1] =
                 IF (@ \div mask) % 2 = 1 THEN @ ELSE @ + mask]

\* Bitfield.SetPiece: the slice after the call (bf[byteIndex] |= mask)
BfSetPiece(bf, index) ==
    IF index < 0 \/ index >= Len(bf) * 8 THEN bf
    ELSE LET byteIndex == index \div 8
             offset == index % 8
             mask == Shl1(7 - offset)
         IN  [bf EXCEPT ![byteIndex + 1] =
                 IF (@ \div mask) % 2 = 1 THEN @ ELSE @ + mask]

(* Handshake: NewHandshake, Handshake.Serialize, Read, Validate *)

\* "BitTorrent protocol"
ProtocolString ==
    <<66, 105, 116, 84, 111, 114, 114, 101, 110, 116, 32,
      112, 114, 111, 116, 111, 99, 111, 108>>

\* n zero bytes (make([]byte, n))
Zeros(n) == [i \in 1 .. n |-> 0]

\* copy(dst, src) into a destination of n bytes: src cut or zero-padded
CopyInto(n, src) ==
    [i \in 1 .. n |-> IF i <= Len(src) THEN src[i] ELSE 0]

\* NewHandshake
NewHandshake(infoHash, peerID) ==
    [ProtocolLen |-> 19, Protocol |-> ProtocolString, Reserved |-> Zeros(8),
     InfoHash |-> infoHash, PeerID |-> peerID]

\* Handshake.Serialize: a 68-byte buffer filled field by field
HsSerialize(h) ==
    <<h.ProtocolLen>> \o CopyInto(19, h.Protocol) \o CopyInto(8, h.Reserved)
        \o CopyInto(20, h.InfoHash) \o CopyInto(20, h.PeerID)

HsReadMut(bs) ==
    LET none == NewHandshake(Zeros(20), Zeros(20)) IN
    IF Len(bs) < 68 \/ bs[1] # 19 THEN [err |-> TRUE, h |-> none]
    ELSE [err |-> FALSE,
          h |-> [ProtocolLen |-> bs[1], Protocol |-> SubSeq(bs, 2, 20),
                 Reserved |-> SubSeq(bs, 21, 28),
                 InfoHash |-> SubSeq(bs, 28, 47),
                 PeerID |-> SubSeq(bs, 48, 67)]]

\* Read on a stream that ends after bs: [err, h]
HsRead(bs) ==
    LET none == NewHandshake(Zeros(20), Zeros(20)) IN
    IF Len(bs) < 1 THEN [err |-> TRUE, h |-> none]
    ELSE IF bs[1] # 19 THEN [err |-> TRUE, h |-> none]
    ELSE IF Len(bs) < 68 THEN [err |-> TRUE, h |-> none]
    ELSE LET h == [ProtocolLen |-> bs[1],
                   Protocol |-> SubSeq(bs, 2, 20),
                   Reserved |-> SubSeq(bs, 21, 28),
                   InfoHash |-> SubSeq(bs, 29, 48),
                   PeerID |-> SubSeq(bs, 49, 68)]
         IN  IF h.Protocol # ProtocolString THEN [err |-> TRUE, h |-> none]
             ELSE [err |-> FALSE, h |-> h]

\* 20-byte values that differ from one another in the first byte, in the
\* last byte, or everywhere
Hash20(x, y, z) == [i \in 1 .. 20 |-> IF i = 1 THEN x ELSE IF i = 20 THEN z ELSE y]

Hashes ==
    {Hash20(x, y, z) : x \in {0, 171}, y \in {0, 171}, z \in {0, 255}}

\* Pool.InfoHash and Pool.OurPeerID
OurInfoHash == Hash20(171, 0, 255)

OurPeerID == Hash20(45, 71, 84)

ValidateMut(h, expectedInfoHash) == TRUE

\* Handshake.Validate: TRUE when it returns nil
Validate(h, expectedInfoHash) == h.InfoHash = expectedInfoHash

\* DoHandshake against a peer whose whole answer is bs: what was written
\* before the read, and the outcome of Read and Validate
DoHandshake(bs, infoHash, peerID) ==
    LET r == HsRead(bs) IN
    [wrote |-> HsSerialize(NewHandshake(infoHash, peerID)),
     err |-> r.err \/ ~Validate(r.h, infoHash),
     h |-> r.h]

\* no connection attempt yet
NoDial == [stage |-> "idle", wrote |-> <<>>, got |-> <<>>, first |-> "none"]

\* a peer that answers with a well-formed handshake for our torrent and
\* then stays silent for the five seconds of readBitfield
GoodReply == HsSerialize(NewHandshake(OurInfoHash, Hash20(1, 2, 3)))

Shaken ==
    [stage |-> "session",
     wrote |-> DoHandshake(GoodReply, OurInfoHash, OurPeerID).wrote,
     got |-> GoodReply, first |-> "timeout"]

\* SerializeRequest
SerializeRequest(index, begin, length) ==
    BE32(index) \o BE32(begin) \o BE32(length)

\* NewClient / NewMessageHandler / NewSession: Choked true, no piece known,
\* no callback registered
NewSession ==
    [Choked |-> TRUE, pieces |-> {}, onPiece |-> {}, sent |-> {}]

\* Session.IsChoked
IsChoked(st, a) == st.sess[a].Choked

\* MessageHandler.HasPiece
HasPiece(st, a, index) == index \in st.sess[a].pieces

\* RequestPiece with the choke test left out
RequestPieceMut(st, a, index, begin, length) ==
    LET err == IF ~HasPiece(st, a, index) THEN "nopiece" ELSE "nil"
        req == [index |-> index, begin |-> begin, length |-> length]
    IN  [err |-> err,
         st |-> [st EXCEPT
                   !.sess[a].sent = IF err = "nil" THEN @ \cup {req} ELSE @]]

\* MessageHandler.RequestPiece: [err, st].  The request goes on the wire
\* unless the session is choked or the peer lacks the piece
RequestPiece(st, a, index, begin, length) ==
    LET err == IF st.sess[a].Choked THEN "choked"
               ELSE IF ~HasPiece(st, a, index) THEN "nopiece"
               ELSE "nil"
        req == [index |-> index, begin |-> begin, length |-> length]
    IN  [err |-> err,
         st |-> [st EXCEPT
                   !.sess[a].sent = IF err = "nil" THEN @ \cup {req} ELSE @]]

\* Session.RequestBlock
RequestBlock(st, a, index, begin, length) ==
    RequestPiece(st, a, index, begin, length)

\* Pool.GetUnchokedSessions
GetUnchokedSessions(st) == {a \in st.Sessions : ~IsChoked(st, a)}

\* MessageHandler.handleMessage for a message without block data, given as
\* [id, index, bits]: unchoke clears Choked, have and bitfield add to the
\* pieces map, every other id (MsgChoke has no case of its own) changes
\* nothing
handleMessage(st, a, m) ==
    IF m.id = MsgUnchoke THEN [st EXCEPT !.sess[a].Choked = FALSE]
    ELSE IF m.id = MsgHave
    THEN [st EXCEPT !.sess[a].pieces = @ \cup {m.index}]
    ELSE IF m.id = MsgBitfield
    THEN [st EXCEPT !.sess[a].pieces = @ \cup m.bits]
    ELSE st

----------------------------------------------------------------------------
(* Download manager: internal/download/downloader.go *)

\* DownloadManager.requestNextBlock
requestNextBlock(st, p, a) ==
    LET r == NextRequest(st.Pieces[p])
        st1 == [st EXCEPT !.Pieces[p] = r.pc]
    IN  IF r.b = -1 THEN st1
        ELSE RequestBlock(st1, a, p, BlockBegin(r.b),
                          BlockLength(st.Pieces[p].Length, r.b)).st

\* DownloadManager.downloadPieceFromPeer
downloadPieceFromPeer(st, p, a) ==
    requestNextBlock(
        [st EXCEPT !.activePieces = MapPut(@, p, a),
                   !.pieceTimeouts = MapPut(@, p, st.now + PieceTimeout),
                   !.sess[a].onPiece = {p}],
        p, a)

\* managePieceDownloads, first loop: every piece whose deadline has passed is
\* reset and forgotten
RECURSIVE ExpireAll(_, _)
ExpireAll(st, todo) ==
    IF todo = {} THEN st
    ELSE LET p == CHOOSE x \in todo : TRUE IN
         ExpireAll([ResetPiece(st, p) EXCEPT
                        !.activePieces = MapDelete(@, p),
                        !.pieceTimeouts = MapDelete(@, p)],
                   todo \ {p})

Expired(st) ==
    {p \in DOMAIN st.pieceTimeouts : st.now > st.pieceTimeouts[p]}

\* the budget test of managePieceDownloads, always passing
BudgetLeftMut(st) == TRUE

\* the test made before each assignment
BudgetLeft(st) == Cardinality(DOMAIN st.activePieces) < MaxConcurrent

\* the busy-session test of managePieceDownloads, never skipping
PeerHasActiveMut(st, a) == FALSE

\* "Skip if this peer already has an active download"
PeerHasActive(st, a) ==
    \E p \in DOMAIN st.activePieces : st.activePieces[p] = a

\* managePieceDownloads, one iteration of the loop over the unchoked
\* sessions: the set of states it may leave
VisitSession(st, bitfields, a) ==
    IF PeerHasActive(st, a) THEN {st}
    ELSE { IF r.piece = -1 THEN r.st
           ELSE downloadPieceFromPeer(r.st, r.piece, a)
           : r \in PickPiece(st, bitfields) }

\* managePieceDownloads, the loop over the unchoked sessions, which come out
\* of a map iteration in any order: the set of states it may end in.  A
\* session that has an active download is skipped wherever it comes in the
\* order and stays busy for the rest of the loop, so the busy sessions are
\* taken out of the enumeration of orders at once.
RECURSIVE AssignLoop(_, _, _)
AssignLoop(st, bitfields, todo) ==
    IF todo = {} \/ ~BudgetLeft(st) THEN {st}
    ELSE LET busy == {a \in todo : PeerHasActive(st, a)} IN
         IF busy # {} THEN AssignLoop(st, bitfields, todo \ busy)
         ELSE UNION { UNION { AssignLoop(st2, bitfields, todo \ {a})
                              : st2 \in VisitSession(st, bitfields, a) }
                      : a \in todo }

\* DownloadManager.managePieceDownloads: the set of states a tick may end in
managePieceDownloads(st0) ==
    LET st == ExpireAll(st0, Expired(st0))
        unchoked == GetUnchokedSessions(st)
        bitfields == [a \in unchoked |->
                         {i \in DOMAIN st.Pieces : HasPiece(st, a, i)}]
    IN  IF unchoked = {} THEN {st}
        ELSE IF ~BudgetLeft(st) THEN {st}
        ELSE AssignLoop(st, bitfields, unchoked)

\* a wrong-mode unlock: recorded, and fatal when the runtime check is on
Fault(st, fatal) ==
    [st EXCEPT !.lockFault = TRUE, !.halted = @ \/ fatal]

\* processReceivedBlock, the branch taken when the piece verifies
OnVerified(st, p, writeOk) ==
    LET m == MarkPieceCompleted(st, p) IN
    IF ~m.ok THEN m.st
    ELSE IF ~writeOk THEN m.st
    ELSE LET st1 == [m.st EXCEPT
                        !.disk = @ \cup {p},
                        !.Stats.PiecesCompleted = @ + 1,
                        !.activePieces = MapDelete(@, p),
                        !.pieceTimeouts = MapDelete(@, p),
                        !.calls.pieceCompleted = @ \cup {p}]
         IN  IF PmIsComplete(st1)
             \* updateState locks dm.mu, which this handler holds
             THEN [st1 EXCEPT !.dmMu = "deadlocked"]
             ELSE [st1 EXCEPT !.calls.have = @ \cup {p}]

\* DownloadManager.processReceivedBlock for the callback registered on
\* session a for piece p
processReceivedBlock(st, a, p, index, begin, len, val, writeOk, fatal) ==
    IF index # p THEN st
    ELSE LET r == PmAddBlock(st, index, begin, len, val) IN
    IF ~r.ok THEN st
    ELSE LET st1 == [r.st EXCEPT !.Stats.Downloaded = @ + len]
             pc == st1.Pieces[p]
         IN  IF ~IsComplete(pc) THEN requestNextBlock(st1, p, a)
             ELSE IF fatal THEN Fault(st1, TRUE)
             ELSE IF Verify(pc) THEN OnVerified(Fault(st1, FALSE), p, writeOk)
             ELSE [ResetPiece(Fault(st1, FALSE), p) EXCEPT
                      !.activePieces = MapDelete(@, p),
                      !.pieceTimeouts = MapDelete(@, p)]

\* DownloadManager.updateStats: DownloadedCount releases the read lock of the
\* piece manager with Unlock
updateStats(st, fatal) ==
    IF fatal THEN Fault(st, TRUE)
    ELSE [Fault(st, FALSE) EXCEPT !.Stats.PiecesCompleted = st.Completed]

----------------------------------------------------------------------------
(* Initial state: NewDownloadManager, then Start *)

SmallPeers == {"p1", "p2"}

\* no connection to the address
NoConn == [open |-> FALSE, reading |-> FALSE, keepAlive |-> FALSE]

\* a session after NewSession and Session.Start: socket open, messageLoop
\* and keepAliveRoutine running
Started == [open |-> TRUE, reading |-> TRUE, keepAlive |-> TRUE]

ProgInit(t, ps, fatal, conn0, ss) ==
    /\ torrent = t
    /\ peers = ps
    /\ fatalExits = fatal
    /\ Pieces = NewPieces(t)
    /\ Downloaded = {}
    /\ InProgress = {}
    /\ Missing = PieceIdx(t)
    /\ Completed = 0
    /\ activePieces = <<>>
    /\ pieceTimeouts = <<>>
    /\ Stats = [Downloaded |-> 0, PiecesCompleted |-> 0]
    /\ dmMu = "free"
    /\ Sessions = conn0
    /\ sess = ss
    /\ disk = {}
    /\ now = 0
    /\ halted = FALSE
    /\ lockFault = FALSE
    /\ calls = [complete |-> 0, pieceCompleted |-> {}, have |-> {}]
    /\ lastReq = [addr |-> "", index |-> 0, begin |-> 0, length |-> 0,
                  err |-> ""]
    /\ lastMsg = [addr |-> "", id |-> -1, index |-> 0, bits |-> {}]
    /\ run = [ctx |-> "live", tracker |-> TRUE, sched |-> TRUE,
              stats |-> TRUE, storage |-> TRUE, stop |-> "none"]
    /\ conn = [a \in ps |-> IF a \in conn0 THEN Started ELSE NoConn]
    /\ dial = [a \in ps |-> IF a \in conn0 THEN Shaken ELSE NoDial]
    /\ lastConnect = [peers |-> <<>>, maxConnections |-> 0, connected |-> 0,
                      before |-> {}]

\* the program on its own: no library function is under examination
InitFrom(t, ps, fatal, conn0, ss) ==
    /\ ProgInit(t, ps, fatal, conn0, ss)
    /\ fnIn = <<>>
    /\ fnOut = <<>>

\* the state after NewDownloadManager: no session yet
InitWith(t, ps, fatal) ==
    InitFrom(t, ps, fatal, {}, [a \in ps |-> NewSession])

Init == InitWith(SmallTorrent, SmallPeers, TRUE)

InitLogic == InitWith(SmallTorrent, SmallPeers, FALSE)

----------------------------------------------------------------------------
(* Actions *)

\* Pool.Connect for a candidate that is not in the pool yet: NewSession,
\* then Session.Start, whose SendInterested serializes an empty payload,
\* then the session is stored
PoolConnect(a) ==
    /\ ~halted
    /\ a \in peers \ Sessions
    /\ IF fatalExits /\ Serialize(Msg(MsgInterested, <<>>)).panic
       THEN Commit([St EXCEPT !.halted = TRUE])
       ELSE Commit([St EXCEPT !.Sessions = @ \cup {a},
                              !.sess[a] = NewSession,
                              !.conn[a] = Started,
                              !.dial[a] = Shaken])

\* handleMessage, MsgUnchoke (no unchoke callback is ever registered)
RecvUnchoke(a) ==
    /\ ~halted
    /\ a \in Sessions
    /\ Commit([St EXCEPT !.sess[a].Choked = FALSE])

\* handleMessage, MsgHave
RecvHave(a, i) ==
    /\ ~halted
    /\ a \in Sessions
    /\ Commit([St EXCEPT !.sess[a].pieces = @ \cup {i}])

\* handleMessage, MsgBitfield: every set bit is added to the pieces map
RecvBitfield(a, bf) ==
    /\ ~halted
    /\ a \in Sessions
    /\ Commit([St EXCEPT !.sess[a].pieces = @ \cup bf])

\* handleMessage, MsgPiece, with the callback downloadPieceFromPeer registered
RecvPiece(a, index, begin, len, val) ==
    /\ ~halted
    /\ a \in Sessions
    /\ dmMu = "free"
    /\ Stats.Downloaded < MaxBlocks * BlockSize
    /\ \E p \in sess[a].onPiece : \E writeOk \in BOOLEAN :
          Commit(processReceivedBlock(St, a, p, index, begin, len, val,
                                      writeOk, fatalExits))

\* pieceManagerWorker: one tick
Tick ==
    /\ ~halted
    /\ dmMu = "free"
    /\ \E st \in managePieceDownloads(St) : Commit(st)

\* statsWorker: one tick
StatsTick ==
    /\ ~halted
    /\ dmMu = "free"
    /\ Commit(updateStats(St, fatalExits))

\* the clock
Advance ==
    /\ ~halted
    /\ now < MaxAdvance * TimeStep
    /\ Commit([St EXCEPT !.now = @ + TimeStep])

\* a direct call of Session.RequestBlock (the operation the session offers
\* to the scheduler), with its return value recorded
CallRequestBlock(a, index, begin, length) ==
    /\ ~halted
    /\ a \in Sessions
    /\ LET r == RequestBlock(St, a, index, begin, length) IN
       Commit([r.st EXCEPT !.lastReq =
                  [addr |-> a, index |-> index, begin |-> begin,
                   length |-> length, err |-> r.err]])

\* a well-behaved seed: it announces every piece, then unchokes, then answers
\* the requests it received with the true payload, one message at a time
PeerDeliver(a) ==
    /\ ~halted
    /\ a \in Sessions
    /\ IF sess[a].pieces # PieceIdx(torrent)
       THEN RecvBitfield(a, PieceIdx(torrent))
       ELSE IF sess[a].Choked
       THEN RecvUnchoke(a)
       ELSE \E r \in sess[a].sent :
               /\ dmMu = "free"
               /\ \E p \in sess[a].onPiece :
                     Commit(processReceivedBlock(
                        [St EXCEPT !.sess[a].sent = @ \ {r}], a, p,
                        r.index, r.begin, r.length,
                        torrent.content[r.index + 1][(r.begin \div BlockSize) + 1],
                        TRUE, fatalExits))

\* the messages a peer may send that carry no block: choke, unchoke,
\* have(i), bitfield(bits)
HandlerMsgs(t) ==
    {[id |-> k, index |-> 0, bits |-> {}] : k \in {MsgChoke, MsgUnchoke}}
    \cup {[id |-> MsgHave, index |-> i, bits |-> {}] : i \in PieceIdx(t)}
    \cup {[id |-> MsgBitfield, index |-> 0, bits |-> bf]
            : bf \in SUBSET PieceIdx(t)}

\* messageLoop hands the next message of session a to handleMessage
Deliver(a, m) ==
    /\ ~halted
    /\ a \in Sessions
    /\ conn[a].reading
    /\ Commit([handleMessage(St, a, m) EXCEPT !.lastMsg =
                  [addr |-> a, id |-> m.id, index |-> m.index,
                   bits |-> m.bits]])

\* messageLoop: Client.Read returns an error (peer closed the connection,
\* or nothing arrived within the 3-minute read deadline); the loop prints
\* the error and returns
ReadError(a) ==
    /\ ~halted
    /\ a \in Sessions
    /\ conn[a].reading
    /\ Commit([St EXCEPT !.conn[a].reading = FALSE])

\* keepAliveRoutine: SendKeepAlive fails; the routine prints the error and
\* returns
KeepAliveError(a) ==
    /\ ~halted
    /\ a \in Sessions
    /\ conn[a].keepAlive
    /\ Commit([St EXCEPT !.conn[a].keepAlive = FALSE])

\* DownloadManager.Stop: cancel the context, close the storage, then
\* updateState("Stopped"), which needs dm.mu
Stop ==
    /\ ~halted
    /\ run.stop = "none"
    /\ Commit([St EXCEPT !.run.ctx = "cancelled",
                         !.run.storage = FALSE,
                         !.run.stop = IF dmMu = "free" THEN "returned"
                                      ELSE "blocked"])

Workers == {"tracker", "sched", "stats"}

\* a worker's select takes the <-dm.ctx.Done() case and the worker returns
WorkerExit(w) ==
    /\ ~halted
    /\ run.ctx = "cancelled"
    /\ run[w]
    /\ Commit([St EXCEPT !.run[w] = FALSE])

Begins == {0, BlockSize}

Next ==
    \/ \E a \in peers : PoolConnect(a)
    \/ \E a \in peers : RecvUnchoke(a)
    \/ \E a \in peers : \E i \in PieceIdx(torrent) : RecvHave(a, i)
    \/ \E a \in peers : \E bf \in SUBSET PieceIdx(torrent) : RecvBitfield(a, bf)
    \/ \E a \in peers : \E i \in PieceIdx(torrent) : \E b \in Begins :
          \E l \in Lens : \E v \in Vals : RecvPiece(a, i, b, l, v)
    \/ Tick
    \/ StatsTick
    \/ Advance

\* Six sessions are connected and have announced pieces: session k of
\* WidePeers holds the pieces k-1 .. 5 (reached from InitWith by six
\* PoolConnect and six RecvBitfield steps)
WidePeers == <<"p1", "p2", "p3", "p4", "p5", "p6">>

InitBudget ==
    InitFrom(WideTorrent, {WidePeers[k] : k \in 1 .. 6}, FALSE,
             {WidePeers[k] : k \in 1 .. 6},
             [a \in {WidePeers[k] : k \in 1 .. 6} |->
                 [NewSession EXCEPT
                     !.Choked = (a = WidePeers[6]),
                     !.pieces =
                       {i \in 0 .. 5 : \E k \in 1 .. i + 1 : WidePeers[k] = a}]])

NextBudget ==
    \/ \E a \in peers : RecvUnchoke(a)
    \/ \E a \in peers : \E i \in PieceIdx(torrent) : \E v \in Vals :
          /\ Stats.Downloaded < WideBlocks * BlockSize
          /\ RecvPiece(a, i, 0, BlockSize, v)
    \/ Tick

SpecBudget == InitBudget /\ [][NextBudget]_vars

\* The session interface on its own: messages arrive and the scheduler's
\* entry point is called with any arguments
InitSession ==
    InitFrom(SmallTorrent, SmallPeers, FALSE, SmallPeers,
             [a \in SmallPeers |-> NewSession])

NextSession ==
    \/ \E a \in peers : RecvUnchoke(a)
    \/ \E a \in peers : \E i \in PieceIdx(torrent) : RecvHave(a, i)
    \/ \E a \in peers : \E i \in PieceIdx(torrent) : \E b \in Begins :
          CallRequestBlock(a, i, b, BlockSize)

SpecSession == InitSession /\ [][NextSession]_vars

\* The message handler of each session under every sequence of choke,
\* unchoke, have and bitfield messages, with requests in between
NextHandler ==
    \/ \E a \in peers : \E m \in HandlerMsgs(torrent) : Deliver(a, m)
    \/ \E a \in peers : \E i \in PieceIdx(torrent) :
          CallRequestBlock(a, i, 0, BlockSize)

SpecHandler == InitSession /\ [][NextHandler]_vars

\* The life cycle: the workers while they run, messages and I/O errors on
\* the sessions, Stop, and the workers leaving their loops
NextLife ==
    \/ \E a \in peers : run.tracker /\ PoolConnect(a)
    \/ \E a \in peers : conn[a].reading /\ RecvUnchoke(a)
    \/ \E a \in peers : \E i \in PieceIdx(torrent) :
          conn[a].reading /\ RecvHave(a, i)
    \/ \E a \in peers : ReadError(a)
    \/ \E a \in peers : KeepAliveError(a)
    \/ run.sched /\ Tick
    \/ run.stats /\ StatsTick
    \/ Stop
    \/ \E w \in Workers : WorkerExit(w)

\* Fairness: a worker whose context is cancelled does take the Done case;
\* every connection is granted to fail eventually (a silent peer trips the
\* 3-minute read deadline), which is the most the sessions can rely on
SpecLife ==
    /\ InitLogic
    /\ [][NextLife]_vars
    /\ \A w \in Workers : WF_vars(WorkerExit(w))
    /\ \A a \in SmallPeers :
          WF_vars(ReadError(a)) /\ WF_vars(KeepAliveError(a))

\* What a remote peer may answer to our handshake: well-formed answers (with
\* or without extension bits), a wrong length byte, a protocol string or an
\* info hash that differs in its first or in its last byte, and streams that
\* end early
PeerHandshakes ==
    LET good == NewHandshake(OurInfoHash, Hash20(1, 2, 3)) IN
    { HsSerialize(good),
      HsSerialize([good EXCEPT !.Reserved = <<0, 0, 0, 0, 0, 16, 0, 5>>]),
      HsSerialize([good EXCEPT !.ProtocolLen = 18]),
      HsSerialize([good EXCEPT !.Protocol[1] = 98]),
      HsSerialize([good EXCEPT !.Protocol[19] = 76]),
      HsSerialize([good EXCEPT !.InfoHash[1] = 170]),
      HsSerialize([good EXCEPT !.InfoHash[20] = 254]),
      SubSeq(HsSerialize(good), 1, 40),
      <<>> }

\* What follows the handshake within the five seconds of readBitfield:
\* nothing, a keep-alive, a bitfield with every piece set, an unchoke, a
\* have for piece 0, or the end of the stream
FirstMessages == {"timeout", "keepalive", "bitfield", "unchoke", "have", "eof"}

\* the pieces the first message announces
FirstPieces(first, t) ==
    IF first = "bitfield" THEN PieceIdx(t)
    ELSE IF first = "have" THEN {0}
    ELSE {}

\* Client.readBitfield: TRUE when it returns an error (a read error that is
\* not a timeout)
readBitfield(first) == first = "eof"

\* NewClient up to the write of DoHandshake: the dial succeeded and our
\* handshake is on the wire
NewClientDial(a) ==
    /\ ~halted
    /\ a \in peers \ Sessions
    /\ dial[a].stage \in {"idle", "closed"}
    /\ Commit([St EXCEPT
          !.dial[a] = [stage |-> "wrote",
                       wrote |-> DoHandshake(<<>>, OurInfoHash, OurPeerID).wrote,
                       got |-> <<>>, first |-> "none"],
          !.conn[a] = [NoConn EXCEPT !.open = TRUE]])

\* The rest of NewClient and of Pool.Connect once the peer has answered bs
\* followed by first: Read, Validate, readBitfield, Session.Start, and the
\* session is stored; any error closes the connection
NewClientShake(a, bs, first) ==
    /\ ~halted
    /\ a \in peers \ Sessions
    /\ dial[a].stage = "wrote"
    /\ LET hs == DoHandshake(bs, OurInfoHash, OurPeerID)
           got == [dial[a] EXCEPT !.got = bs, !.first = first]
       IN  IF hs.err \/ readBitfield(first)
           THEN Commit([St EXCEPT !.dial[a] = [got EXCEPT !.stage = "closed"],
                                  !.conn[a] = NoConn])
           ELSE IF fatalExits /\ Serialize(Msg(MsgInterested, <<>>)).panic
           THEN Commit([St EXCEPT !.dial[a] = [got EXCEPT !.stage = "crashed"],
                                  !.halted = TRUE])
           ELSE Commit([St EXCEPT !.dial[a] = [got EXCEPT !.stage = "session"],
                                  !.Sessions = @ \cup {a},
                                  !.sess[a] = NewSession,
                                  !.conn[a] = Started])

\* Connection attempts against every kind of peer, in the process as built
\* and with the handler logic followed past the fault of Session.Start
InitGate ==
    \E fatal \in BOOLEAN : InitWith(SmallTorrent, SmallPeers, fatal)

NextGate ==
    \/ \E a \in peers : NewClientDial(a)
    \/ \E a \in peers : \E bs \in PeerHandshakes : \E first \in FirstMessages :
          NewClientShake(a, bs, first)
    \/ \E a \in peers : ReadError(a)

SpecGate == InitGate /\ [][NextGate]_vars

BudgetReachedMut(connected, maxConnections) == FALSE

\* Pool.Connect, the test at the head of its loop
BudgetReached(connected, maxConnections) == connected >= maxConnections

RECURSIVE ConnectLoop(_, _, _, _)
\* Pool.Connect, the loop from candidate k on: the set of outcomes
\* [st, connected].  A candidate's handshake succeeds or fails; when the
\* process is as built, Session.Start ends it at the first success.
ConnectLoop(st, cands, maxConnections, acc) ==
    IF cands = <<>> \/ BudgetReached(acc, maxConnections) \/ st.halted
    THEN {[st |-> st, connected |-> acc]}
    ELSE LET a == Head(cands) IN
         IF a \in st.Sessions THEN ConnectLoop(st, Tail(cands), maxConnections, acc)
         ELSE ConnectLoop([st EXCEPT !.dial[a].stage = "closed"],
                          Tail(cands), maxConnections, acc)
              \cup
              (IF fatalExits /\ Serialize(Msg(MsgInterested, <<>>)).panic
               THEN {[st |-> [st EXCEPT !.halted = TRUE], connected |-> acc]}
               ELSE ConnectLoop([st EXCEPT !.Sessions = @ \cup {a},
                                           !.sess[a] = NewSession,
                                           !.conn[a] = Started,
                                           !.dial[a] = Shaken],
                                Tail(cands), maxConnections, acc + 1))

\* Pool.Connect: the set of states it may return in, the call recorded
Connect(st, cands, maxConnections) ==
    { [r.st EXCEPT !.lastConnect =
          [peers |-> cands, maxConnections |-> maxConnections,
           connected |-> r.connected, before |-> st.Sessions]]
      : r \in ConnectLoop(st, cands, maxConnections, 0) }

\* dm.maxPeers, the cap handed to NewDownloadManager
MaxPeers == 2

\* the addresses a tracker may hand out: one more than the cap
PoolPeers == {"p1", "p2", "p3"}

\* candidate lists of an announce: any order, with repetitions
MaxCandidates == 3

Candidates == UNION {[1 .. n -> PoolPeers] : n \in 0 .. MaxCandidates}

\* DownloadManager.discoverPeers with a tracker that answered cands
discoverPeers(cands) ==
    /\ ~halted
    /\ run.tracker
    /\ dmMu = "free"
    /\ LET neededPeers == MaxPeers - Cardinality(Sessions) IN
       IF neededPeers > 0
       THEN \E st \in Connect(St, cands, neededPeers) : Commit(st)
       ELSE Commit(St)

\* The pool under repeated announces
InitPool ==
    \E fatal \in BOOLEAN : InitWith(SmallTorrent, PoolPeers, fatal)

NextPool ==
    \/ \E cands \in Candidates : discoverPeers(cands)
    \/ \E a \in peers : RecvUnchoke(a)
    \/ \E a \in peers : ReadError(a)

SpecPool == InitPool /\ [][NextPool]_vars

\* the most bytes a piece may have counted before the calls stop
MaxStores == 3

\* the offsets handed to AddBlock: the two block starts, one past the last
\* block and one inside a block
BlockOffsets == {0, BlockSize, 2 * BlockSize, 1}

\* a direct call of PieceManager.AddBlock, recorded with the pieces before it
CallAddBlock(i, begin, len, val) ==
    /\ \A j \in DOMAIN Pieces : Pieces[j].Downloaded < MaxStores * BlockSize
    /\ LET r == PmAddBlock(St, i, begin, len, val) IN
       /\ Assign(r.st)
       /\ fnOut' = [stage |-> "called", index |-> i, begin |-> begin,
                    len |-> len, val |-> val, ok |-> r.ok, before |-> Pieces]
       /\ UNCHANGED <<torrent, peers, fatalExits, fnIn>>

\* AddBlock called with every kind of argument on the pieces of a torrent
InitBlock ==
    /\ ProgInit(SmallTorrent, SmallPeers, FALSE, {}, [a \in SmallPeers |-> NewSession])
    /\ fnIn = <<>>
    /\ fnOut = [stage |-> "new"]

NextBlock ==
    \E i \in -1 .. NumPieces(torrent) : \E begin \in BlockOffsets :
        \E len \in Lens : \E val \in Vals : CallAddBlock(i, begin, len, val)

SpecBlock == InitBlock /\ [][NextBlock]_vars

\* NewHandshake(...).Serialize() and Read on its output, for every pair of
\* an info hash and a peer id
InitShake ==
    /\ ProgInit(SmallTorrent, SmallPeers, TRUE, {}, [a \in SmallPeers |-> NewSession])
    /\ fnIn \in {[infoHash |-> ih, peerID |-> id] : ih \in Hashes, id \in Hashes}
    /\ fnOut = [stage |-> "new"]

ShakeSerialize ==
    /\ fnOut.stage = "new"
    /\ Returns([stage |-> "serialized",
                 bytes |-> HsSerialize(NewHandshake(fnIn.infoHash, fnIn.peerID))])

ShakeRead ==
    /\ fnOut.stage = "serialized"
    /\ Returns([stage |-> "read", bytes |-> fnOut.bytes,
                 back |-> HsRead(fnOut.bytes)])

NextShake == ShakeSerialize \/ ShakeRead

SpecShake == InitShake /\ [][NextShake]_vars

\* Message.Serialize and ReadMessage on its output, for the keep-alive and
\* for every message id with payloads of 0, 1, 2, 3, 4 and 12 bytes
FramePayloads ==
    {<<>>, <<7>>, <<7, 8>>, <<1, 2, 3>>, BE32(5),
     SerializeRequest(0, 0, BlockSize), SerializeRequest(1, BlockSize, BlockSize)}

InitFrame ==
    /\ ProgInit(SmallTorrent, SmallPeers, TRUE, {}, [a \in SmallPeers |-> NewSession])
    /\ fnIn \in {NilMsg} \cup {Msg(id, pl) : id \in MsgChoke .. MsgCancel, pl \in FramePayloads}
    /\ fnOut = [stage |-> "new"]

FrameSerialize ==
    /\ fnOut.stage = "new"
    /\ Returns([stage |-> "serialized", out |-> Serialize(fnIn)])

FrameRead ==
    /\ fnOut.stage = "serialized"
    /\ ~fnOut.out.panic
    /\ Returns([stage |-> "read", out |-> fnOut.out,
                back |-> ReadMessage(fnOut.out.bytes)])

NextFrame == FrameSerialize \/ FrameRead

SpecFrame == InitFrame /\ [][NextFrame]_vars

\* Bitfield.SetPiece followed by Bitfield.HasPiece, for bitfields of 0, 1
\* and 2 bytes and indices inside and outside their range
BfBytes == {0, 1, 64, 128, 165, 255}

MaxBfLen == 2

InitBits ==
    /\ ProgInit(SmallTorrent, SmallPeers, TRUE, {}, [a \in SmallPeers |-> NewSession])
    /\ fnIn \in {[bf |-> bf, index |-> i] :
                    bf \in UNION {[1 .. n -> BfBytes] : n \in 0 .. MaxBfLen},
                    i \in -1 .. 8 * MaxBfLen + 1}
    /\ fnOut = [stage |-> "new"]

BitsSetPiece ==
    /\ fnOut.stage = "new"
    /\ Returns([stage |-> "set", bf |-> BfSetPiece(fnIn.bf, fnIn.index)])

BitsHasPiece ==
    /\ fnOut.stage = "set"
    /\ Returns([stage |-> "asked", bf |-> fnOut.bf,
                has |-> BfHasPiece(fnOut.bf, fnIn.index)])

NextBits == BitsSetPiece \/ BitsHasPiece

SpecBits == InitBits /\ [][NextBits]_vars

----------------------------------------------------------------------------
(* Bencode: values, encoder, decoder.  Text is a sequence of ASCII codes:
   '0'..'9' = 48..57, ':' = 58, '-' = 45, '+' = 43, 'd' = 100, 'e' = 101,
   'i' = 105, 'l' = 108 *)

\* the four kinds of value the encoder accepts and the decoder returns
BInt(n) == [t |-> "int", n |-> n, s |-> <<>>, l |-> <<>>, d |-> <<>>]

BStr(s) == [t |-> "str", n |-> 0, s |-> s, l |-> <<>>, d |-> <<>>]

BList(l) == [t |-> "list", n |-> 0, s |-> <<>>, l |-> l, d |-> <<>>]

BDict(d) == [t |-> "dict", n |-> 0, s |-> <<>>, l |-> <<>>, d |-> d]

RECURSIVE FmtNat(_)
\* the decimal digits of a natural number
FmtNat(n) == IF n < 10 THEN <<48 + n>> ELSE FmtNat(n \div 10) \o <<48 + (n % 10)>>

\* fmt "%d"
FmtInt(n) == IF n < 0 THEN <<45>> \o FmtNat(0 - n) ELSE FmtNat(n)

RECURSIVE NatOf(_)
\* the number a non-empty digit string stands for
NatOf(ds) ==
    IF Len(ds) = 0 THEN 0
    ELSE 10 * NatOf(SubSeq(ds, 1, Len(ds) - 1)) + (ds[Len(ds)] - 48)

\* strconv.Atoi / strconv.ParseInt(s, 10, 64) for numbers within int64:
\* an optional sign followed by one or more digits
ParseInt(str) ==
    LET signed == Len(str) > 0 /\ str[1] \in {43, 45}
        ds == IF signed THEN SubSeq(str, 2, Len(str)) ELSE str
    IN  IF Len(ds) = 0 \/ \E k \in 1 .. Len(ds) : ds[k] < 48 \/ ds[k] > 57
        THEN [err |-> TRUE, n |-> 0]
        ELSE [err |-> FALSE,
              n |-> IF signed /\ str[1] = 45 THEN 0 - NatOf(ds) ELSE NatOf(ds)]

\* the order of sort.Strings: bytewise lexicographic
LexLess(x, y) ==
    \E k \in 1 .. Len(y) :
       /\ k <= Len(x) + 1
       /\ \A j \in 1 .. k - 1 : x[j] = y[j]
       /\ (k = Len(x) + 1 \/ x[k] < y[k])

\* encodeString
encodeString(str) == FmtInt(Len(str)) \o <<58>> \o str

\* encodeInteger
encodeInteger(n) == <<105>> \o FmtInt(n) \o <<101>>

RECURSIVE encodeValue(_)
RECURSIVE encodeItems(_)
RECURSIVE encodePairs(_, _)
\* the loop of encodeList
encodeItems(l) ==
    IF Len(l) = 0 THEN <<>> ELSE encodeValue(Head(l)) \o encodeItems(Tail(l))

\* the loop of encodeDict over the keys that are left, in sorted order
encodePairs(d, keys) ==
    IF keys = {} THEN <<>>
    ELSE LET key == CHOOSE x \in keys : \A y \in keys \ {x} : LexLess(x, y) IN
         encodeString(key) \o encodeValue(d[key]) \o encodePairs(d, keys \ {key})

\* encodeList
encodeList(l) == <<108>> \o encodeItems(l) \o <<101>>

\* encodeDict
encodeDict(d) == <<100>> \o encodePairs(d, DOMAIN d) \o <<101>>

\* encodeValue for the types it supports
encodeValue(v) ==
    CASE v.t = "str" -> encodeString(v.s)
      [] v.t = "int" -> encodeInteger(v.n)
      [] v.t = "list" -> encodeList(v.l)
      [] v.t = "dict" -> encodeDict(v.d)

\* Encode
Encode(v) == encodeValue(v)

\* a decoding step: whether it failed, the value, the next unread position
Got(v, pos) == [err |-> FALSE, val |-> v, pos |-> pos]

Failed == [err |-> TRUE, val |-> BInt(0), pos |-> 0]

\* readUntil from position pos: [err, str, pos]
readUntil(bs, pos, delimiter) ==
    LET hits == {k \in pos .. Len(bs) : bs[k] = delimiter} IN
    IF hits = {} THEN [err |-> TRUE, str |-> <<>>, pos |-> 0]
    ELSE LET k == CHOOSE x \in hits : \A y \in hits : x <= y IN
         [err |-> FALSE, str |-> SubSeq(bs, pos, k - 1), pos |-> k + 1]

\* decodeString (a negative length makes make([]byte, length) panic, which
\* ends the decoding as a failure does)
decodeString(bs, pos) ==
    LET r == readUntil(bs, pos, 58) IN
    IF r.err THEN Failed
    ELSE LET length == ParseInt(r.str) IN
         IF length.err \/ length.n < 0 THEN Failed
         ELSE IF r.pos + length.n - 1 > Len(bs) THEN Failed
         ELSE Got(BStr(SubSeq(bs, r.pos, r.pos + length.n - 1)), r.pos + length.n)

\* decodeInteger
decodeInteger(bs, pos) ==
    LET r == readUntil(bs, pos + 1, 101) IN
    IF r.err THEN Failed
    ELSE IF Len(r.str) > 1 /\ r.str[1] = 48 THEN Failed
    ELSE IF Len(r.str) > 1 /\ r.str[1] = 45 /\ r.str[2] = 48 THEN Failed
    ELSE LET num == ParseInt(r.str) IN
         IF num.err THEN Failed ELSE Got(BInt(num.n), r.pos)

RECURSIVE decodeNext(_, _)
RECURSIVE listLoop(_, _, _)
RECURSIVE dictLoop(_, _, _)
\* the loop of decodeList: items decoded so far in list
listLoop(bs, pos, list) ==
    IF pos > Len(bs) THEN Failed
    ELSE IF bs[pos] = 101 THEN Got(BList(list), pos + 1)
    ELSE LET item == decodeNext(bs, pos) IN
         IF item.err THEN Failed
         ELSE listLoop(bs, item.pos, Append(list, item.val))

\* the loop of decodeDict: entries decoded so far in dict
dictLoop(bs, pos, dict) ==
    IF pos > Len(bs) THEN Failed
    ELSE IF bs[pos] = 101 THEN Got(BDict(dict), pos + 1)
    ELSE LET key == decodeNext(bs, pos) IN
         IF key.err THEN Failed
         ELSE IF key.val.t # "str" THEN Failed
         ELSE LET value == decodeNext(bs, key.pos) IN
              IF value.err THEN Failed
              ELSE dictLoop(bs, value.pos, MapPut(dict, key.val.s, value.val))

\* decodeList
decodeList(bs, pos) == listLoop(bs, pos + 1, <<>>)

\* decodeDict
decodeDict(bs, pos) == dictLoop(bs, pos + 1, <<>>)

\* decodeNext: the first case of the switch compares the byte with the
\* character '0' (48) below and with the number 9 above
decodeNext(bs, pos) ==
    IF pos > Len(bs) THEN Failed
    ELSE LET b == bs[pos] IN
         CASE b >= 48 /\ b <= 9 -> decodeString(bs, pos)
           [] b = 105 -> decodeInteger(bs, pos)
           [] b = 108 -> decodeList(bs, pos)
           [] b = 100 -> decodeDict(bs, pos)
           [] OTHER -> Failed

\* Decode
Decode(bs) == decodeNext(bs, 1)

\* Encode, Decode on its output, Encode again, for integers, strings, lists
\* and dictionaries of them, nested once
BenStrings == {<<>>, <<97>>, <<115, 112, 97, 109>>, <<49, 58>>}

BenAtoms ==
    {BInt(n) : n \in {0, 7, -3, 42, 120}} \cup {BStr(str) : str \in BenStrings}

MaxItems == 2

BenKeys == {<<97>>, <<97, 98>>, <<98>>}

BenLists == {BList(l) : l \in UNION {[1 .. n -> BenAtoms] : n \in 0 .. MaxItems}}

BenDicts ==
    {BDict(d) : d \in UNION {[ks -> {BInt(7), BStr(<<97>>), BList(<<>>), BList(<<BInt(0)>>)}] :
                               ks \in {x \in SUBSET BenKeys : Cardinality(x) <= MaxItems}}}

BenValues ==
    BenAtoms \cup BenLists \cup BenDicts
        \cup {BList(<<v>>) : v \in {BList(<<>>), BList(<<BInt(-3)>>), BDict(<<>>)}}
        \cup {BDict(<<>>)}

InitBencode ==
    /\ ProgInit(SmallTorrent, SmallPeers, TRUE, {}, [a \in SmallPeers |-> NewSession])
    /\ fnIn \in BenValues
    /\ fnOut = [stage |-> "new"]

BenEncode ==
    /\ fnOut.stage = "new"
    /\ Returns([stage |-> "encoded", bytes |-> Encode(fnIn)])

BenDecode ==
    /\ fnOut.stage = "encoded"
    /\ Returns([stage |-> "decoded", bytes |-> fnOut.bytes,
                back |-> Decode(fnOut.bytes)])

BenEncodeAgain ==
    /\ fnOut.stage = "decoded"
    /\ ~fnOut.back.err
    /\ Returns([stage |-> "encoded again", bytes |-> fnOut.bytes,
                back |-> fnOut.back, again |-> Encode(fnOut.back.val)])

NextBencode == BenEncode \/ BenDecode \/ BenEncodeAgain

SpecBencode == InitBencode /\ [][NextBencode]_vars

----------------------------------------------------------------------------
(* Torrent descriptor parsing: internal/torrent/file.go.  The input of Parse
   is a decoded bencode value; dictionary keys are ASCII strings. *)

\* "annouce"
KeyAnnouce == <<97, 110, 110, 111, 117, 99, 101>>

\* "announce"
KeyAnnounce == <<97, 110, 110, 111, 117, 110, 99, 101>>

\* "annouce-list"
KeyAnnouceList == <<97, 110, 110, 111, 117, 99, 101, 45, 108, 105, 115, 116>>

\* "creation date"
KeyCreationDate ==
    <<99, 114, 101, 97, 116, 105,
      111, 110, 32, 100, 97, 116, 101>>

\* "comment"
KeyComment == <<99, 111, 109, 109, 101, 110, 116>>

\* "created by"
KeyCreatedBy == <<99, 114, 101, 97, 116, 101, 100, 32, 98, 121>>

\* "encoding"
KeyEncoding == <<101, 110, 99, 111, 100, 105, 110, 103>>

\* "info"
KeyInfo == <<105, 110, 102, 111>>

\* "piece length"
KeyPieceLength == <<112, 105, 101, 99, 101, 32, 108, 101, 110, 103, 116, 104>>

\* "pieces"
KeyPieces == <<112, 105, 101, 99, 101, 115>>

\* "private"
KeyPrivate == <<112, 114, 105, 118, 97, 116, 101>>

\* "name"
KeyName == <<110, 97, 109, 101>>

\* "length"
KeyLength == <<108, 101, 110, 103, 116, 104>>

\* "files"
KeyFiles == <<102, 105, 108, 101, 115>>

\* "path"
KeyPath == <<112, 97, 116, 104>>

\* value, ok := dict[key].(type): the key is present and holds that type
Has(d, key, type) == key \in DOMAIN d /\ d[key].t = type

\* an optional key is absent or holds the type the code asserts
Optional(d, key, type) == key \notin DOMAIN d \/ d[key].t = type

\* parsePieces: len(pieces)/20 hashes, a trailing partial hash is dropped
parsePieces(pieces) ==
    [i \in 1 .. (Len(pieces) \div 20) |-> SubSeq(pieces, (i - 1) * 20 + 1, i * 20)]

\* one entry of "files": TRUE when parseInfoDict accepts it
FileOk(f) ==
    /\ f.t = "dict"
    /\ Has(f.d, KeyLength, "int")
    /\ Has(f.d, KeyPath, "list")
    /\ \A j \in 1 .. Len(f.d[KeyPath].l) : f.d[KeyPath].l[j].t = "str"

NoInfo ==
    [PieceLength |-> 0, Pieces |-> <<>>, Private |-> FALSE, Name |-> <<>>,
     Length |-> 0, Files |-> <<>>, IsDirectory |-> FALSE]

\* parseInfoDict: [err, Info]
parseInfoDict(info) ==
    IF ~Has(info, KeyPieceLength, "int") THEN [err |-> TRUE, Info |-> NoInfo]
    ELSE IF ~Has(info, KeyPieces, "str") THEN [err |-> TRUE, Info |-> NoInfo]
    ELSE IF ~Optional(info, KeyPrivate, "int") THEN [err |-> TRUE, Info |-> NoInfo]
    ELSE IF ~Has(info, KeyName, "str") THEN [err |-> TRUE, Info |-> NoInfo]
    ELSE LET base == [NoInfo EXCEPT
                         !.PieceLength = info[KeyPieceLength].n,
                         !.Pieces = info[KeyPieces].s,
                         !.Private = (KeyPrivate \in DOMAIN info
                                        /\ info[KeyPrivate].n = 1),
                         !.Name = info[KeyName].s]
         IN  IF KeyLength \in DOMAIN info
             THEN IF info[KeyLength].t # "int" THEN [err |-> TRUE, Info |-> NoInfo]
                  ELSE [err |-> FALSE,
                        Info |-> [base EXCEPT !.Length = info[KeyLength].n]]
             ELSE IF KeyFiles \in DOMAIN info
             THEN IF info[KeyFiles].t # "list" THEN [err |-> TRUE, Info |-> NoInfo]
                  ELSE LET files == info[KeyFiles].l IN
                       IF \E i \in 1 .. Len(files) : ~FileOk(files[i])
                       THEN [err |-> TRUE, Info |-> NoInfo]
                       ELSE [err |-> FALSE,
                             Info |-> [base EXCEPT
                                !.Files = [i \in 1 .. Len(files) |->
                                             [Length |-> files[i].d[KeyLength].n,
                                              Path |-> [j \in 1 .. Len(files[i].d[KeyPath].l) |->
                                                           files[i].d[KeyPath].l[j].s]]],
                                !.IsDirectory = TRUE]]
             ELSE [err |-> TRUE, Info |-> NoInfo]

\* calculateHashInfo: SHA-1 of the re-encoded info dictionary
calculateHashInfo(info) == Sha1(Encode(BDict(info)))

NoTorrent ==
    [Announce |-> <<>>, AnnouceList |-> <<>>, Info |-> NoInfo,
     InfoHash |-> Sha1(<<>>), PiecesHash |-> <<>>]

\* the "annouce-list" value is a list of lists of strings
TiersOk(v) ==
    /\ v.t = "list"
    /\ \A i \in 1 .. Len(v.l) :
          /\ v.l[i].t = "list"
          /\ \A j \in 1 .. Len(v.l[i].l) : v.l[i].l[j].t = "str"

\* Parse: [err, t]
Parse(data) ==
    IF data.t # "dict" THEN [err |-> TRUE, t |-> NoTorrent]
    ELSE LET dict == data.d IN
    IF ~Has(dict, KeyAnnouce, "str") THEN [err |-> TRUE, t |-> NoTorrent]
    ELSE IF KeyAnnouceList \in DOMAIN dict /\ ~TiersOk(dict[KeyAnnouceList])
    THEN [err |-> TRUE, t |-> NoTorrent]
    ELSE IF ~Optional(dict, KeyCreationDate, "int") THEN [err |-> TRUE, t |-> NoTorrent]
    ELSE IF ~Optional(dict, KeyComment, "str") THEN [err |-> TRUE, t |-> NoTorrent]
    ELSE IF ~Optional(dict, KeyCreatedBy, "str") THEN [err |-> TRUE, t |-> NoTorrent]
    ELSE IF ~Optional(dict, KeyEncoding, "str") THEN [err |-> TRUE, t |-> NoTorrent]
    ELSE IF ~Has(dict, KeyInfo, "dict") THEN [err |-> TRUE, t |-> NoTorrent]
    ELSE LET info == parseInfoDict(dict[KeyInfo].d) IN
         IF info.err THEN [err |-> TRUE, t |-> NoTorrent]
         ELSE [err |-> FALSE,
               t |-> [Announce |-> dict[KeyAnnouce].s,
                      AnnouceList |->
                        IF KeyAnnouceList \in DOMAIN dict
                        THEN [i \in 1 .. Len(dict[KeyAnnouceList].l) |->
                                [j \in 1 .. Len(dict[KeyAnnouceList].l[i].l) |->
                                    dict[KeyAnnouceList].l[i].l[j].s]]
                        ELSE <<>>,
                      Info |-> info.Info,
                      InfoHash |-> calculateHashInfo(dict[KeyInfo].d),
                      PiecesHash |-> parsePieces(info.Info.Pieces)]]

RECURSIVE SumLengths(_)
\* the loop of TotalLength
SumLengths(files) ==
    IF Len(files) = 0 THEN 0 ELSE Head(files).Length + SumLengths(Tail(files))

\* TorrentFile.TotalLength
TotalLength(tf) ==
    IF ~tf.Info.IsDirectory THEN tf.Info.Length ELSE SumLengths(tf.Info.Files)

\* the descriptor as the scheduler reads it: piece length, total length and
\* one entry per declared hash (the payload behind a hash is not known to
\* the parser)
Described(tf) ==
    [pieceLength |-> tf.Info.PieceLength, totalLength |-> TotalLength(tf),
     content |-> [i \in 1 .. Len(tf.PiecesHash) |-> <<>>]]

\* Descriptors handed to Parse: with the key the code looks up and with the
\* standard "announce" key, piece length 16384 or 0, 0 to 3 declared hashes
\* (and a pieces string that is not a multiple of 20), single-file and
\* multi-file layouts, and three malformed values
PiecesText(n) == [i \in 1 .. n |-> ((i - 1) \div 20) + 1]

FileEntry(len, name) ==
    BDict((KeyLength :> BInt(len)) @@ (KeyPath :> BList(<<BStr(name)>>)))

Layouts ==
    {(KeyLength :> BInt(n)) : n \in {0, 16384, 30000, 32768}}
      \cup {(KeyFiles :> BList(<<FileEntry(10000, <<97>>), FileEntry(20000, <<98>>)>>)),
            (KeyFiles :> BList(<<>>)),
            <<>>}

InfoDicts ==
    {(KeyPieceLength :> BInt(pl)) @@ (KeyPieces :> BStr(PiecesText(n)))
        @@ (KeyName :> BStr(<<116>>)) @@ layout :
        pl \in {16384, 0}, n \in {0, 20, 40, 50, 60}, layout \in Layouts}

ParseInputs ==
    {BDict((key :> BStr(<<104>>)) @@ (KeyInfo :> BDict(info))) :
        key \in {KeyAnnouce, KeyAnnounce}, info \in InfoDicts}
      \cup {BInt(0),
            BDict((KeyAnnouce :> BStr(<<104>>))),
            BDict((KeyAnnouce :> BStr(<<104>>)) @@ (KeyComment :> BInt(1))
                    @@ (KeyInfo :> BDict(<<>>)))}

InitParse ==
    /\ ProgInit(SmallTorrent, SmallPeers, TRUE, {}, [a \in SmallPeers |-> NewSession])
    /\ fnIn \in ParseInputs
    /\ fnOut = [stage |-> "new"]

\* Parse
ParseData ==
    /\ fnOut.stage = "new"
    /\ Returns([stage |-> "parsed", res |-> Parse(fnIn)])

\* NewDownloadManager / NewPieceManager on an accepted descriptor: one piece
\* per declared hash, sized by PieceSize, whose last case divides by the
\* piece length
MakePieces ==
    /\ fnOut.stage = "parsed"
    /\ ~fnOut.res.err
    /\ LET tf == fnOut.res.t
           n == Len(tf.PiecesHash)
       IN  IF n > 0 /\ tf.Info.PieceLength = 0
           THEN Returns([stage |-> "scheduled", res |-> fnOut.res,
                         panic |-> TRUE, sizes |-> <<>>])
           ELSE Returns([stage |-> "scheduled", res |-> fnOut.res,
                         panic |-> FALSE,
                         sizes |-> [i \in 1 .. n |-> PieceSize(Described(tf), i - 1)]])

NextParse == ParseData \/ MakePieces

SpecParse == InitParse /\ [][NextParse]_vars

----------------------------------------------------------------------------
(* File storage: NewFileStorage, WritePiece, Close.  A file on disk is the
   sequence of its bytes; fs.Files[i] is "open", "nil" (closed by
   closeFiles) or absent when the slice is shorter. *)

\* the int64 helpers min and max
min(a, b) == IF a < b THEN a ELSE b

max(a, b) == IF a > b THEN a ELSE b

\* number of output files of a descriptor
NumFiles(tf) == IF tf.Info.IsDirectory THEN Len(tf.Info.Files) ELSE 1

\* NewFileStorage: the directories are created; no file is created or
\* opened, fs.Files stays the nil slice
NewFileStorage(tf) ==
    [Files |-> <<>>, disk |-> <<>>, dirs |-> tf.Info.IsDirectory]

\* (*os.File).WriteAt on a file that holds bytes old
WriteAt(old, data, off) ==
    IF Len(data) = 0 THEN old
    ELSE [k \in 1 .. max(Len(old), off + Len(data)) |->
             IF k > off /\ k <= off + Len(data) THEN data[k - off]
             ELSE IF k <= Len(old) THEN old[k] ELSE 0]

\* fs.Files[i].WriteAt(data, off): [panic, err, fs]; indexing past the end
\* of fs.Files panics, a nil handle returns os.ErrInvalid
FileWriteAt(fs, i, data, off) ==
    IF i > Len(fs.Files) THEN [panic |-> TRUE, err |-> FALSE, fs |-> fs]
    ELSE IF fs.Files[i] # "open" THEN [panic |-> FALSE, err |-> TRUE, fs |-> fs]
    ELSE [panic |-> FALSE, err |-> FALSE,
          fs |-> [fs EXCEPT !.disk[i] = WriteAt(@, data, off)]]

RECURSIVE WriteLoop(_, _, _, _, _, _, _)
\* the loop of WritePiece over Info.Files from file i on
WriteLoop(fs, files, i, pieceOffset, data, fileOffset, bytesWritten) ==
    IF i > Len(files) THEN [panic |-> FALSE, err |-> FALSE, fs |-> fs]
    ELSE LET length == files[i].Length
             dataEnd == pieceOffset + Len(data)
         IN
         IF \/ (pieceOffset >= fileOffset /\ pieceOffset < fileOffset + length)
            \/ (fileOffset >= pieceOffset /\ fileOffset < dataEnd)
         THEN LET overlapStart == max(pieceOffset, fileOffset)
                  overlapEnd == min(dataEnd, fileOffset + length)
                  overlapSize == overlapEnd - overlapStart
              IN  IF overlapSize < 0
                  THEN WriteLoop(fs, files, i + 1, pieceOffset, data,
                                 fileOffset, bytesWritten)
                  ELSE LET fileWriteOffset == overlapStart - fileOffset
                           pieceReadOffset == overlapStart - pieceOffset
                           w == FileWriteAt(fs, i,
                                    SubSeq(data, pieceReadOffset + 1,
                                           pieceReadOffset + overlapSize),
                                    fileWriteOffset)
                       IN  IF w.panic \/ w.err THEN w
                           ELSE IF bytesWritten + overlapSize >= Len(data) THEN w
                           ELSE WriteLoop(w.fs, files, i + 1, pieceOffset, data,
                                          fileOffset + length,
                                          bytesWritten + overlapSize)
         ELSE WriteLoop(fs, files, i + 1, pieceOffset, data,
                        fileOffset + length, bytesWritten)

\* FileStorage.WritePiece: [panic, err, fs]
WritePiece(fs, tf, pieceIndex, data) ==
    LET pieceOffset == pieceIndex * tf.Info.PieceLength IN
    IF ~tf.Info.IsDirectory THEN FileWriteAt(fs, 1, data, pieceOffset)
    ELSE WriteLoop(fs, tf.Info.Files, 1, pieceOffset, data, 0, 0)

\* Descriptors with a small piece length, single-file and multi-file, whose
\* hash count matches their lengths
StorePieceLength == 4

StoreLayouts ==
    {[dir |-> FALSE, lens |-> <<n>>] : n \in {1, 4, 5, 8, 9}}
      \cup {[dir |-> TRUE, lens |-> ls] :
              ls \in {<<9>>, <<3, 6>>, <<4, 4>>, <<3, 0, 6>>, <<1, 1, 1, 6>>,
                      <<10, 2>>, <<2, 5>>}}

StoreTorrent(layout) ==
    LET files == [i \in 1 .. Len(layout.lens) |->
                     [Length |-> layout.lens[i], Path |-> <<<<102, 48 + i>>>>]]
        info == [NoInfo EXCEPT
                    !.PieceLength = StorePieceLength,
                    !.Name = <<116>>,
                    !.Length = IF layout.dir THEN 0 ELSE layout.lens[1],
                    !.Files = IF layout.dir THEN files ELSE <<>>,
                    !.IsDirectory = layout.dir]
        total == IF layout.dir THEN SumLengths(files) ELSE layout.lens[1]
        n == (total + StorePieceLength - 1) \div StorePieceLength
    IN  [NoTorrent EXCEPT !.Info = info,
                          !.PiecesHash = [i \in 1 .. n |-> Zeros(20)]]

\* the verified bytes of piece i: all different, never zero
PieceData(tf, fill, i) ==
    [k \in 1 .. PieceSize(Described(tf), i) |-> fill + 10 * i + k]

InitStore ==
    /\ ProgInit(SmallTorrent, SmallPeers, TRUE, {}, [a \in SmallPeers |-> NewSession])
    /\ fnIn \in {[tf |-> StoreTorrent(layout), fill |-> fill] :
                    layout \in StoreLayouts, fill \in {100, 150, 200}}
    /\ fnOut = [stage |-> "new"]

\* DownloadManager.Start: dm.Storage = NewFileStorage(...)
StoreStart ==
    /\ fnOut.stage = "new"
    /\ Returns([stage |-> "started", fs |-> NewFileStorage(fnIn.tf),
                written |-> {}, panic |-> FALSE, err |-> FALSE])

\* dm.Storage.WritePiece(i, d_i) for a piece that was not written yet; a
\* panic ends the process
StoreWrite(i) ==
    /\ fnOut.stage = "started"
    /\ ~fnOut.panic
    /\ i \notin fnOut.written
    /\ LET w == WritePiece(fnOut.fs, fnIn.tf, i, PieceData(fnIn.tf, fnIn.fill, i)) IN
       Returns([stage |-> "started", fs |-> w.fs,
                written |-> fnOut.written \cup {i},
                panic |-> w.panic, err |-> w.err])

NextStore ==
    \/ StoreStart
    \/ \E i \in 0 .. Len(fnIn.tf.PiecesHash) - 1 : StoreWrite(i)

SpecStore == InitStore /\ [][NextStore]_vars

----------------------------------------------------------------------------
(* Tracker response: internal/tracker/announce.go *)

\* "failure reason"
KeyFailureReason ==
    <<102, 97, 105, 108, 117, 114, 101,
      32, 114, 101, 97, 115, 111, 110>>

\* "interval"
KeyInterval == <<105, 110, 116, 101, 114, 118, 97, 108>>

\* "complete"
KeyComplete == <<99, 111, 109, 112, 108, 101, 116, 101>>

\* "peers"
KeyPeers == <<112, 101, 101, 114, 115>>

\* "peer id"
KeyPeerID == <<112, 101, 101, 114, 32, 105, 100>>

\* "ip"
KeyIP == <<105, 112>>

\* "port"
KeyPort == <<112, 111, 114, 116>>

\* the Go type of a value the decoder returns
DynType(v) ==
    CASE v.t = "int" -> "int64"
      [] v.t = "str" -> "string"
      [] v.t = "list" -> "[]interface{}"
      [] v.t = "dict" -> "map[string]interface{}"

\* binary.BigEndian.Uint16
U16(bs) == bs[1] * 256 + bs[2]

\* parseCompactPeers: [err, peers]
parseCompactPeers(data) ==
    IF Len(data) % 6 # 0 THEN [err |-> TRUE, peers |-> <<>>]
    ELSE [err |-> FALSE,
          peers |-> [i \in 1 .. (Len(data) \div 6) |->
                       LET offset == (i - 1) * 6 IN
                       [ID |-> Zeros(20),
                        IP |-> SubSeq(data, offset + 1, offset + 4),
                        Port |-> U16(SubSeq(data, offset + 5, offset + 6))]]]

RECURSIVE SplitDots(_)
\* the fields of a string between its '.' characters
SplitDots(str) ==
    LET dots == {k \in 1 .. Len(str) : str[k] = 46} IN
    IF dots = {} THEN <<str>>
    ELSE LET k == CHOOSE x \in dots : \A y \in dots : x <= y IN
         <<SubSeq(str, 1, k - 1)>> \o SplitDots(SubSeq(str, k + 1, Len(str)))

\* net.ParseIP on dotted-decimal text: the 16-byte form of the IPv4
\* address, or <<>> for nil (IPv6 text is outside the inputs explored)
ParseIP(str) ==
    LET parts == SplitDots(str)
        FieldOk(f) == /\ Len(f) \in 1 .. 3
                      /\ \A k \in 1 .. Len(f) : f[k] >= 48 /\ f[k] <= 57
                      /\ (Len(f) > 1 => f[1] # 48)
                      /\ NatOf(f) <= 255
    IN  IF Len(parts) # 4 \/ \E k \in 1 .. 4 : ~FieldOk(parts[k]) THEN <<>>
        ELSE Zeros(10) \o <<255, 255>> \o [k \in 1 .. 4 |-> NatOf(parts[k])]

\* one entry of the non-compact list: [err, peer]
parsePeerDict(peerData) ==
    LET none == [ID |-> Zeros(20), IP |-> <<>>, Port |-> 0] IN
    IF peerData.t # "dict" THEN [err |-> TRUE, peer |-> none]
    ELSE LET d == peerData.d IN
    IF KeyPeerID \in DOMAIN d /\ d[KeyPeerID].t # "str" THEN [err |-> TRUE, peer |-> none]
    ELSE IF ~Has(d, KeyIP, "str") THEN [err |-> TRUE, peer |-> none]
    ELSE IF ParseIP(d[KeyIP].s) = <<>> THEN [err |-> TRUE, peer |-> none]
    ELSE IF ~Has(d, KeyPort, "int") THEN [err |-> TRUE, peer |-> none]
    ELSE [err |-> FALSE,
          peer |-> [ID |-> IF KeyPeerID \in DOMAIN d
                           THEN CopyInto(20, d[KeyPeerID].s) ELSE Zeros(20),
                    IP |-> ParseIP(d[KeyIP].s),
                    Port |-> d[KeyPort].n]]

\* parseNonCompactPeers: [err, peers]
parseNonCompactPeers(data) ==
    IF \E i \in 1 .. Len(data) : parsePeerDict(data[i]).err
    THEN [err |-> TRUE, peers |-> <<>>]
    ELSE [err |-> FALSE, peers |-> [i \in 1 .. Len(data) |-> parsePeerDict(data[i]).peer]]

NoResponse == [Interval |-> 0, Peers |-> <<>>, Complete |-> 0, Incomplete |-> 0]

\* parseAnnounceResponse: [err, response]; the interval and the complete
\* count are asserted to be of type int
parseAnnounceResponse(data) ==
    LET decoded == Decode(data)
        fail == [err |-> TRUE, response |-> NoResponse]
    IN
    IF decoded.err THEN fail
    ELSE IF DynType(decoded.val) # "map[string]interface{}" THEN fail
    ELSE LET dict == decoded.val.d IN
    IF KeyFailureReason \in DOMAIN dict THEN fail
    ELSE IF KeyInterval \in DOMAIN dict /\ DynType(dict[KeyInterval]) # "int" THEN fail
    ELSE IF KeyComplete \in DOMAIN dict /\ DynType(dict[KeyComplete]) # "int" THEN fail
    ELSE LET r1 == [NoResponse EXCEPT
                       !.Interval = IF KeyInterval \in DOMAIN dict
                                    THEN dict[KeyInterval].n ELSE 0,
                       !.Complete = IF KeyComplete \in DOMAIN dict
                                    THEN dict[KeyComplete].n ELSE 0]
         IN  IF KeyPeers \notin DOMAIN dict THEN [err |-> FALSE, response |-> r1]
             ELSE LET peersVal == dict[KeyPeers]
                      ps == IF peersVal.t = "str" THEN parseCompactPeers(peersVal.s)
                            ELSE parseNonCompactPeers(peersVal.l)
                  IN  IF peersVal.t \notin {"str", "list"} THEN fail
                      ELSE IF ps.err THEN fail
                      ELSE [err |-> FALSE, response |-> [r1 EXCEPT !.Peers = ps.peers]]

\* Tracker answers: every combination of a failure reason, an interval, a
\* seeder count and a peer list in compact form (0, 1 or 2 peers, or 7
\* bytes), in dictionary form, or of a wrong type
TrackerPeers ==
    {<<>>,
     (KeyPeers :> BStr(<<>>)),
     (KeyPeers :> BStr(<<127, 0, 0, 1, 26, 225>>)),
     (KeyPeers :> BStr(<<127, 0, 0, 1, 26, 225, 10, 0, 0, 2, 0, 80>>)),
     (KeyPeers :> BStr(<<127, 0, 0, 1, 26, 225, 10>>)),
     (KeyPeers :> BList(<<>>)),
     (KeyPeers :> BList(<<BDict((KeyIP :> BStr(<<49, 46, 50, 46, 51, 46, 52>>))
                                  @@ (KeyPort :> BInt(6881)))>>)),
     (KeyPeers :> BInt(0))}

TrackerAnswers ==
    {Encode(BDict(f @@ i @@ c @@ ps)) :
        f \in {<<>>, (KeyFailureReason :> BStr(<<110, 111>>))},
        i \in {<<>>, (KeyInterval :> BInt(0)), (KeyInterval :> BInt(900)),
               (KeyInterval :> BInt(1800)), (KeyInterval :> BStr(<<49>>))},
        c \in {<<>>, (KeyComplete :> BInt(5))},
        ps \in TrackerPeers}
      \cup {Encode(BInt(5)), Encode(BList(<<>>)), <<>>}

InitAnnounce ==
    /\ ProgInit(SmallTorrent, SmallPeers, TRUE, {}, [a \in SmallPeers |-> NewSession])
    /\ fnIn \in TrackerAnswers
    /\ fnOut = [stage |-> "new"]

\* Client.Announce once the body of the HTTP answer has been read
AnnounceParse ==
    /\ fnOut.stage = "new"
    /\ Returns([stage |-> "parsed", res |-> parseAnnounceResponse(fnIn)])

NextAnnounce == AnnounceParse

SpecAnnounce == InitAnnounce /\ [][NextAnnounce]_vars

\* Well-behaved seeds, fair scheduling of the tick and of message delivery
NextLive ==
    \/ \E a \in peers : PoolConnect(a)
    \/ \E a \in peers : PeerDeliver(a)
    \/ Tick
    \/ Advance

SpecLive ==
    /\ InitLogic
    /\ [][NextLive]_vars
    /\ WF_vars(Tick)
    /\ \A a \in SmallPeers : WF_vars(PoolConnect(a)) /\ WF_vars(PeerDeliver(a))

Spec == Init /\ [][Next]_vars

SpecLogic == InitLogic /\ [][Next]_vars

\* ---------------------------------------------------------------------
\* Properties
\* ---------------------------------------------------------------------

\* whether piece i is available to some unchoked session that is free
FreeTaker(i) ==
    \E a \in Sessions :
        /\ ~sess[a].Choked
        /\ i \in sess[a].pieces
        /\ ~PeerHasActive(St, a)

\* C1: once a piece is COMPLETE it stays COMPLETE in every later step, and
\* the completed count never decreases.
C1_Monotone ==
    [][ /\ \A i \in DOMAIN Pieces :
              Pieces[i].State = "Complete" => Pieces'[i].State = "Complete"
        /\ Completed' >= Completed ]_vars

\* C1, reached case: a COMPLETE piece whose storage write failed is still
\* tracked with a deadline
C1_Reached ==
    \E i \in DOMAIN Pieces :
        Pieces[i].State = "Complete" /\ i \in DOMAIN pieceTimeouts

\* C2: at most MaxConcurrent pieces are in progress at any time, counted in
\* the piece manager's InProgress set and in the scheduler's activePieces.
C2_Budget ==
    /\ Cardinality(InProgress) <= MaxConcurrent
    /\ Cardinality(DOMAIN activePieces) <= MaxConcurrent

\* C2, reached case: the budget is used up while a missing piece could still
\* be handed to a free unchoked session
C2_Full ==
    /\ Cardinality(DOMAIN activePieces) = MaxConcurrent
    /\ Cardinality(InProgress) = MaxConcurrent
    /\ \E i \in Missing : FreeTaker(i)

\* C3: a piece becomes COMPLETE only when every one of its blocks holds data
\* and the SHA-1 of the blocks' concatenation equals the descriptor's hash.
C3_VerifyLaw ==
    [][ \A i \in DOMAIN Pieces :
          (Pieces[i].State # "Complete" /\ Pieces'[i].State = "Complete")
            => /\ \A b \in 1 .. Len(Pieces'[i].Blocks) :
                     Pieces'[i].Blocks[b] # NoData
               /\ Sha1(AssembleData(Pieces'[i])) = PiecesHash(torrent, i) ]_vars

\* C3, reached case: a COMPLETE piece with a block that holds no data
C3_Reached ==
    \E i \in DOMAIN Pieces :
        /\ Pieces[i].State = "Complete"
        /\ \E b \in 1 .. Len(Pieces[i].Blocks) : Pieces[i].Blocks[b] = NoData

\* C4: a piece that is reset (moved from InProgress back to Missing) has no
\* downloaded bytes, no block data, no requested marks, and state NONE.
C4_ResetClean ==
    [][ \A i \in DOMAIN Pieces :
          (i \in InProgress /\ i \in Missing')
            => /\ Pieces'[i].Downloaded = 0
               /\ \A b \in 1 .. Len(Pieces'[i].Blocks) :
                     Pieces'[i].Blocks[b] = NoData
               /\ Pieces'[i].Requested = {}
               /\ Pieces'[i].State = "None" ]_vars

\* C4, reached case: a missing piece that still carries block data
C4_Reached ==
    \E i \in Missing :
        Pieces[i].Downloaded > 0 /\ Pieces[i].State = "None"

\* C5: Missing, InProgress and Downloaded are pairwise disjoint and together
\* contain every piece index.
C5_Partition ==
    /\ Missing \cap InProgress = {}
    /\ Missing \cap Downloaded = {}
    /\ InProgress \cap Downloaded = {}
    /\ Missing \cup InProgress \cup Downloaded = DOMAIN Pieces

\* C5, reached case: a piece is both missing and downloaded
C5_Reached == Missing \cap Downloaded # {}

\* C6: a piece that is in progress and whose deadline has not passed is not
\* handed to a second session.
C6_NoSecondSession ==
    [][ \A p \in DOMAIN activePieces :
          (p \in InProgress /\ p \notin Expired(St)
             /\ p \in DOMAIN activePieces')
            => activePieces'[p] = activePieces[p] ]_vars

\* C6, reached case: every piece available to a free unchoked session is
\* already in progress
C6_Reached ==
    \E a \in Sessions :
        /\ ~sess[a].Choked
        /\ ~PeerHasActive(St, a)
        /\ sess[a].pieces # {}
        /\ sess[a].pieces \subseteq InProgress
        /\ \A p \in sess[a].pieces : p \in DOMAIN activePieces
        /\ Expired(St) = {}

\* C7: no session address is the assignee of two active pieces.
C7_OnePiecePerSession ==
    \A p, q \in DOMAIN activePieces :
        p # q => activePieces[p] # activePieces[q]

\* C7, reached case: a session with an active piece is unchoked and holds a
\* further piece that is missing, and the budget allows another assignment
C7_Busy ==
    \E a \in Sessions :
        /\ ~sess[a].Choked
        /\ PeerHasActive(St, a)
        /\ sess[a].pieces \cap Missing # {}
        /\ BudgetLeft(St)

\* C8: with every connected peer a well-behaved unchoked seed and fair
\* scheduling, eventually every piece is COMPLETE.
C8_Completes == <>(Completed = NumPieces(torrent))

\* C8, reached case: every session is an unchoked seed, pieces are assigned
\* and nothing was requested
C8_Reached ==
    /\ Sessions = peers
    /\ \A a \in Sessions :
          /\ ~sess[a].Choked
          /\ sess[a].pieces = PieceIdx(torrent)
          /\ sess[a].sent = {}
    /\ DOMAIN activePieces = PieceIdx(torrent)

\* C9: when every piece is COMPLETE the OnDownloadComplete callback has been
\* invoked exactly once.
C9_FiresOnce ==
    (\A i \in DOMAIN Pieces : Pieces[i].State = "Complete")
        => calls.complete = 1

\* C9, reached case: every piece is COMPLETE and on disk
C9_Reached ==
    /\ \A i \in DOMAIN Pieces : Pieces[i].State = "Complete"
    /\ disk = DOMAIN Pieces

\* C10: RequestBlock puts a request on the wire only if the session is not
\* choked and the peer has the piece; otherwise it returns an error and
\* sends nothing; a session is choked until an unchoke message arrives.
C10_RequestGate ==
    [][ /\ \A a \in peers :
              sess'[a].sent # sess[a].sent
                => /\ ~sess[a].Choked
                   /\ \A r \in sess'[a].sent \ sess[a].sent :
                         r.index \in sess[a].pieces
                   /\ lastReq'.err = "nil"
        /\ lastReq' # lastReq
              => LET a == lastReq'.addr
                     req == [index |-> lastReq'.index,
                             begin |-> lastReq'.begin,
                             length |-> lastReq'.length]
                 IN  IF sess[a].Choked \/ lastReq'.index \notin sess[a].pieces
                     THEN lastReq'.err # "nil" /\ sess' = sess
                     ELSE lastReq'.err = "nil" /\ req \in sess'[a].sent
        /\ \A a \in peers :
              (sess[a].Choked /\ ~sess'[a].Choked)
                => sess' = [sess EXCEPT ![a].Choked = FALSE] ]_vars

\* C10, reached case: a request went out on one session and a call on a
\* choked session was refused
C10_Reached ==
    /\ \E a \in Sessions : sess[a].sent # {}
    /\ lastReq.err = "choked"
    /\ sess[lastReq.addr].Choked
    /\ lastReq.index \in sess[lastReq.addr].pieces

\* C11: after a choke message was handled on a session, and until a later
\* unchoke, the session is choked, is not among the unchoked sessions and
\* refuses every block request.
C11_ChokeTakesEffect ==
    lastMsg.id = MsgChoke
        => /\ IsChoked(St, lastMsg.addr)
           /\ lastMsg.addr \notin GetUnchokedSessions(St)
           /\ \A i \in PieceIdx(torrent) :
                 RequestBlock(St, lastMsg.addr, i, 0, BlockSize).err # "nil"

\* C11, reached case: a choke was the last message on a session that had
\* been unchoked, and a request on it went out afterwards
C11_Reached ==
    /\ lastMsg.id = MsgChoke
    /\ lastReq.addr = lastMsg.addr
    /\ lastReq.err = "nil"
    /\ ~sess[lastMsg.addr].Choked

\* C12: the step that handles an unchoke message clears the session's
\* choke flag and runs piece selection: a session that has a missing piece
\* and no active download, with budget left, comes out of that step with a
\* piece assigned.
C12_SelectOnUnchoke ==
    [][ \A a \in Sessions :
          (sess[a].Choked /\ ~sess'[a].Choked)
            => ((sess[a].pieces \cap Missing # {}
                   /\ BudgetLeft(St) /\ ~PeerHasActive(St, a))
                  => \E p \in DOMAIN activePieces' :
                        activePieces'[p] = a) ]_vars

\* C12, reached case: an unchoked session holding a missing piece while no
\* piece at all is assigned
C12_Reached ==
    /\ activePieces = <<>>
    /\ \E a \in Sessions :
          ~sess[a].Choked /\ sess[a].pieces \cap Missing # {}

\* C13: after a bitfield message was handled on a session, the session's
\* piece set is exactly the set of bits of that message, whatever have and
\* bitfield messages came before.
C13_BitfieldReplaces ==
    lastMsg.id = MsgBitfield
        => \A i \in PieceIdx(torrent) :
              HasPiece(St, lastMsg.addr, i) <=> i \in lastMsg.bits

\* C13, reached case: a bitfield arrived on a session that had recorded a
\* piece the bitfield does not carry
C13_Reached ==
    /\ lastMsg.id = MsgBitfield
    /\ sess[lastMsg.addr].pieces \ lastMsg.bits # {}

\* C14: a session whose read loop or keep-alive routine ended on an I/O
\* error is closed and is no longer in the pool, hence neither counted as
\* connected nor returned as unchoked.
C14_ErrorCloses ==
    \A a \in peers :
        (a \in Sessions /\ conn[a].open)
            => (conn[a].reading /\ conn[a].keepAlive)

\* C14, reached case: a pooled, unchoked session whose read loop has ended
C14_Reached ==
    \E a \in GetUnchokedSessions(St) : ~conn[a].reading /\ conn[a].open

\* C15: once Stop has been called, eventually the tracker, scheduler and
\* statistics loops have returned and every session's read loop and
\* keep-alive routine has ended with its socket closed.
C15_StopTerminates ==
    (run.ctx = "cancelled")
        ~> (/\ ~run.tracker /\ ~run.sched /\ ~run.stats
            /\ \A a \in Sessions :
                  ~conn[a].reading /\ ~conn[a].keepAlive /\ ~conn[a].open)

\* C15, reached case: Stop has returned, the three workers are gone, every
\* session's loops have ended, and the sockets are still open
C15_Reached ==
    /\ run.stop = "returned"
    /\ ~run.tracker /\ ~run.sched /\ ~run.stats
    /\ Sessions # {}
    /\ \A a \in Sessions :
          conn[a].open /\ ~conn[a].reading /\ ~conn[a].keepAlive

----------------------------------------------------------------------------
\* C18: for every info hash and peer id, the serialized handshake is exactly
\* 68 bytes laid out as 19, "BitTorrent protocol", eight zero bytes, the info
\* hash, the peer id, and Read applied to those bytes succeeds and returns
\* the same protocol length, protocol string, info hash and peer id.
C18_ShakeRoundTrip ==
    /\ fnOut.stage \in {"serialized", "read"} =>
          /\ Len(fnOut.bytes) = 68
          /\ fnOut.bytes = <<19>> \o ProtocolString \o <<0, 0, 0, 0, 0, 0, 0, 0>>
                              \o fnIn.infoHash \o fnIn.peerID
    /\ fnOut.stage = "read" =>
          /\ ~fnOut.back.err
          /\ fnOut.back.h.ProtocolLen = 19
          /\ fnOut.back.h.Protocol = ProtocolString
          /\ fnOut.back.h.InfoHash = fnIn.infoHash
          /\ fnOut.back.h.PeerID = fnIn.peerID

C18_Reached ==
    /\ fnOut.stage = "read"
    /\ fnIn.infoHash # fnIn.peerID
    /\ fnIn.infoHash[20] = 255
    /\ fnIn.peerID[1] = 171

----------------------------------------------------------------------------
\* C16: our 68-byte handshake is written before the peer's is read; an
\* address has a session only if the peer's answer carried length byte 19,
\* the protocol string and our info hash; and after any answer that lacks
\* one of them the connection is closed and the address has no session.
C16_HandshakeGate ==
    \A a \in peers :
       LET got == dial[a].got
           matches == /\ Len(got) >= 68
                      /\ got[1] = 19
                      /\ SubSeq(got, 2, 20) = ProtocolString
                      /\ SubSeq(got, 29, 48) = OurInfoHash
       IN  /\ dial[a].stage # "idle" =>
                dial[a].wrote = <<19>> \o ProtocolString \o <<0, 0, 0, 0, 0, 0, 0, 0>>
                                   \o OurInfoHash \o OurPeerID
           /\ a \in Sessions => matches
           /\ (dial[a].stage \in {"closed", "crashed", "session"} /\ ~matches) =>
                /\ dial[a].stage = "closed"
                /\ a \notin Sessions
                /\ ~conn[a].open

C16_Reached ==
    \E a, b \in peers :
       /\ a \in Sessions /\ dial[a].stage = "session"
       /\ dial[b].stage = "closed" /\ Len(dial[b].got) = 68
       /\ dial[b].got[1] = 19
       /\ SubSeq(dial[b].got, 2, 20) = ProtocolString
       /\ dial[b].got[48] = 254
       /\ dial[b].first = "timeout"

----------------------------------------------------------------------------
\* C17: Serialize(m) returns exactly the 4-byte big-endian value 1+len(p),
\* the id byte and the payload p (four zero bytes for the keep-alive), and
\* ReadMessage applied to those bytes returns the same id and payload (nil
\* for the keep-alive).
C17_Framing ==
    /\ fnOut.stage \in {"serialized", "read"} =>
          /\ ~fnOut.out.panic
          /\ fnOut.out.bytes =
                IF fnIn.nil THEN <<0, 0, 0, 0>>
                ELSE BE32(1 + Len(fnIn.Payload)) \o <<fnIn.ID>> \o fnIn.Payload
    /\ fnOut.stage = "read" =>
          /\ ~fnOut.back.err
          /\ fnOut.back.msg = fnIn

\* a message without payload has been handed to Serialize
C17_Reached ==
    /\ fnOut.stage = "serialized"
    /\ ~fnIn.nil
    /\ fnIn.ID = MsgInterested
    /\ fnIn.Payload = <<>>

----------------------------------------------------------------------------
\* C19: for an index i inside the bitfield, after SetPiece(i) HasPiece(i) is
\* true and every other piece is as before, piece 0 being the most
\* significant bit of byte 0; for an index outside the bitfield SetPiece
\* changes nothing and HasPiece(i) is false.
C19_BitfieldLaw ==
    LET b == fnIn.bf
        i == fnIn.index
        \* the pieces a byte string stands for, most significant bit first
        PiecesOf(x) == {j \in 0 .. 8 * Len(x) - 1 :
                          (x[(j \div 8) + 1] \div (2 ^ (7 - (j % 8)))) % 2 = 1}
        inside == 0 <= i /\ i < 8 * Len(b)
    IN  /\ fnOut.stage \in {"set", "asked"} =>
            /\ Len(fnOut.bf) = Len(b)
            /\ inside => PiecesOf(fnOut.bf) = PiecesOf(b) \cup {i}
            /\ inside => \A j \in -1 .. 8 * MaxBfLen + 1 :
                            BfHasPiece(fnOut.bf, j) = (j = i \/ BfHasPiece(b, j))
            /\ ~inside => fnOut.bf = b /\ ~BfHasPiece(b, i)
            /\ \A j \in -1 .. 8 * MaxBfLen + 1 :
                  BfHasPiece(fnOut.bf, j) = (j \in PiecesOf(fnOut.bf))
        /\ fnOut.stage = "asked" => fnOut.has = inside

C19_Reached ==
    /\ fnOut.stage = "asked"
    /\ fnIn.bf = <<64, 1>>
    /\ fnIn.index = 9
    /\ fnOut.bf = <<64, 65>>
    /\ fnOut.has

----------------------------------------------------------------------------
\* C20: Decode applied to the encoding of a value succeeds, consumes it all
\* and returns that value; encoding the decoded value gives the same bytes
\* again; in particular a byte string "<len>:<bytes>" decodes to the string.
C20_BencodeRoundTrip ==
    /\ fnOut.stage \in {"decoded", "encoded again"} =>
          /\ ~fnOut.back.err
          /\ fnOut.back.val = fnIn
          /\ fnOut.back.pos = Len(fnOut.bytes) + 1
    /\ fnOut.stage = "encoded again" => fnOut.again = fnOut.bytes

\* "4:spam" has been handed to Decode
C20_Reached ==
    /\ fnOut.stage = "decoded"
    /\ fnIn = BStr(<<115, 112, 97, 109>>)
    /\ fnOut.bytes = <<52, 58, 115, 112, 97, 109>>

----------------------------------------------------------------------------
\* C21: for every descriptor Parse returns, with n declared pieces, the size
\* of piece i is the piece length for i < n-1 and the remainder of the total
\* length (or the piece length when that remainder is 0) for i = n-1, and
\* the sizes of the n pieces add up to the total length.
C21_PieceSizeLaw ==
    fnOut.stage = "scheduled" =>
       LET tf == fnOut.res.t
           n == Len(tf.PiecesHash)
           pl == tf.Info.PieceLength
           total == TotalLength(tf)
           Sum[k \in 0 .. n] == IF k = 0 THEN 0 ELSE Sum[k - 1] + fnOut.sizes[k]
       IN  /\ ~fnOut.panic
           /\ Len(fnOut.sizes) = n
           /\ \A k \in 1 .. n - 1 : fnOut.sizes[k] = pl
           /\ n > 0 => fnOut.sizes[n] = (IF total % pl = 0 THEN pl ELSE total % pl)
           /\ Sum[n] = total

\* the descriptor of the helper test (files of 10000 and 20000 bytes, piece
\* length 16384, three hashes) has been parsed and sized
C21_Reached ==
    /\ fnOut.stage = "scheduled"
    /\ fnOut.res.t.Info.IsDirectory
    /\ TotalLength(fnOut.res.t) = 30000
    /\ fnOut.sizes = <<16384, 16384, 13616>>

\* C22: a descriptor whose number of declared hashes differs from
\* ceil(total length / piece length) is rejected by Parse and no piece table
\* is ever built from it.
C22_CountChecked ==
    fnOut.stage \in {"parsed", "scheduled"} =>
       LET info == parseInfoDict(fnIn.d[KeyInfo].d).Info
           total == IF info.IsDirectory THEN SumLengths(info.Files) ELSE info.Length
           declared == Len(info.Pieces) \div 20
           needed == (total + info.PieceLength - 1) \div info.PieceLength
       IN  (/\ fnIn.t = "dict"
            /\ Has(fnIn.d, KeyInfo, "dict")
            /\ ~parseInfoDict(fnIn.d[KeyInfo].d).err
            /\ info.PieceLength > 0
            /\ declared # needed)
           => (fnOut.res.err /\ fnOut.stage = "parsed")

\* 3 hashes, total length 30000, piece length 16384 has gone through Parse
C22_Reached ==
    /\ fnOut.stage = "parsed"
    /\ fnIn.t = "dict"
    /\ KeyAnnouce \in DOMAIN fnIn.d
    /\ Has(fnIn.d, KeyInfo, "dict")
    /\ Has(fnIn.d[KeyInfo].d, KeyLength, "int")
    /\ fnIn.d[KeyInfo].d[KeyLength].n = 30000
    /\ fnIn.d[KeyInfo].d[KeyPieceLength].n = 16384
    /\ Len(fnIn.d[KeyInfo].d[KeyPieces].s) = 60

----------------------------------------------------------------------------
\* C23: on the storage NewFileStorage returned, every WritePiece(i, d_i)
\* succeeds, and once every piece has been written (in any order) the output
\* files, read in declared order and concatenated, hold d_0..d_{n-1}
\* truncated to the total length.
C23_ScatterWrite ==
    fnOut.stage = "started" =>
       LET tf == fnIn.tf
           n == Len(tf.PiecesHash)
           total == TotalLength(tf)
           Cat[k \in 0 .. n] ==
               IF k = 0 THEN <<>> ELSE Cat[k - 1] \o PieceData(tf, fnIn.fill, k - 1)
           Files[k \in 0 .. NumFiles(tf)] ==
               IF k = 0 THEN <<>>
               ELSE Files[k - 1] \o (IF k <= Len(fnOut.fs.disk) THEN fnOut.fs.disk[k] ELSE <<>>)
       IN  /\ ~fnOut.panic
           /\ ~fnOut.err
           /\ fnOut.written = 0 .. n - 1 =>
                 Files[NumFiles(tf)] = SubSeq(Cat[n], 1, total)

\* WritePiece has been called on a multi-file storage for a piece that
\* spans two files
C23_Reached ==
    /\ fnOut.stage = "started"
    /\ fnIn.tf.Info.IsDirectory
    /\ Len(fnIn.tf.Info.Files) = 2
    /\ fnIn.tf.Info.Files[1].Length = 3
    /\ fnOut.written = {0}

\* C24: once NewFileStorage has returned without error, every output file of
\* the torrent has an open handle in fs.Files and exists with its declared
\* length, in single-file and in multi-file mode.
C24_FilesOpened ==
    fnOut.stage = "started" /\ fnOut.written = {} =>
       LET tf == fnIn.tf IN
       /\ Len(fnOut.fs.Files) = NumFiles(tf)
       /\ Len(fnOut.fs.disk) = NumFiles(tf)
       /\ \A k \in 1 .. NumFiles(tf) :
             /\ fnOut.fs.Files[k] = "open"
             /\ Len(fnOut.fs.disk[k]) =
                   (IF tf.Info.IsDirectory THEN tf.Info.Files[k].Length ELSE tf.Info.Length)

\* NewFileStorage has returned for a multi-file descriptor
C24_Reached ==
    /\ fnOut.stage = "started"
    /\ fnOut.written = {}
    /\ fnIn.tf.Info.IsDirectory
    /\ Len(fnIn.tf.Info.Files) = 3

----------------------------------------------------------------------------
\* C25: a response dictionary without "failure reason" that holds an integer
\* interval N and a compact peers string of 6k bytes parses successfully
\* with Interval = N and k peers, each 4 address bytes followed by a
\* big-endian 2-byte port; a response with "failure reason" is an error.
C25_TrackerResponse ==
    fnOut.stage = "parsed" =>
       \A f \in {<<>>, (KeyFailureReason :> BStr(<<110, 111>>))} :
       \A n \in {0, 900, 1800} :
       \A c \in {<<>>, (KeyComplete :> BInt(5))} :
       \A bytes \in {<<>>, <<127, 0, 0, 1, 26, 225>>,
                     <<127, 0, 0, 1, 26, 225, 10, 0, 0, 2, 0, 80>>} :
          fnIn = Encode(BDict(f @@ (KeyInterval :> BInt(n)) @@ c
                                @@ (KeyPeers :> BStr(bytes))))
          => IF f # <<>> THEN fnOut.res.err
             ELSE /\ ~fnOut.res.err
                  /\ fnOut.res.response.Interval = n
                  /\ Len(fnOut.res.response.Peers) = Len(bytes) \div 6
                  /\ \A k \in 1 .. Len(bytes) \div 6 :
                        /\ fnOut.res.response.Peers[k].IP = SubSeq(bytes, 6 * k - 5, 6 * k - 2)
                        /\ fnOut.res.response.Peers[k].Port =
                              256 * bytes[6 * k - 1] + bytes[6 * k]

\* the answer d8:intervali1800e5:peers6:<127.0.0.1:6881>e has been parsed
C25_Reached ==
    /\ fnOut.stage = "parsed"
    /\ fnIn = Encode(BDict((KeyInterval :> BInt(1800))
                             @@ (KeyPeers :> BStr(<<127, 0, 0, 1, 26, 225>>))))

----------------------------------------------------------------------------
\* C26: Connect never opens a session for an address that is already in the
\* pool, returns exactly the number of sessions it added, which is at most
\* its budget, and over any sequence of announces the pool never holds more
\* than max_peers sessions.
C26_PoolBudget ==
    /\ Cardinality(Sessions) <= MaxPeers
    /\ lastConnect.before \subseteq Sessions
    /\ lastConnect.connected = Cardinality(Sessions \ lastConnect.before)
    /\ lastConnect.connected <= lastConnect.maxConnections
    /\ \A a \in Sessions \ lastConnect.before :
          \E k \in 1 .. Len(lastConnect.peers) : lastConnect.peers[k] = a

\* a Connect call with three candidates, one of them already in the pool
\* and one listed twice, has filled the pool to its cap
C26_Reached ==
    /\ Cardinality(Sessions) = MaxPeers
    /\ lastConnect.connected = 1
    /\ lastConnect.maxConnections = 1
    /\ Len(lastConnect.peers) = 3
    /\ lastConnect.peers[1] \in lastConnect.before
    /\ lastConnect.peers[2] = lastConnect.peers[3]
    /\ lastConnect.peers[2] \notin lastConnect.before

----------------------------------------------------------------------------
\* C27: NextRequest hands out the lowest block that has no data and was not
\* requested and marks it, so a piece that the scheduler has assigned to a
\* session and that still lacks a block always has one of its lacking
\* blocks marked as requested.
C27_RequestEmitted ==
    \A p \in DOMAIN activePieces :
        LET pc == Pieces[p]
            lacking == {b \in BlockIdx(pc) : pc.Blocks[b + 1] = NoData}
        IN  lacking # {} => lacking \cap pc.Requested # {}

----------------------------------------------------------------------------
\* C28: every release of a mutex matches the mode in which the operation
\* acquired it: no operation releases a write lock while it holds only the
\* read lock.
C28_LockDiscipline == ~lockFault

----------------------------------------------------------------------------
\* C29: no operation that holds the download manager's mutex tries to
\* acquire it again: the handler of the block that completes the last
\* piece returns and releases the lock.
C29_NoSelfDeadlock == dmMu # "deadlocked"

----------------------------------------------------------------------------
----------------------------------------------------------------------------
\* C31: a block received for a piece that is not in progress is discarded:
\* a step changes a piece's block data, its downloaded count or its
\* requested flags only for a piece that is in progress before or after
\* the step, and the downloaded-bytes statistic grows only in a step that
\* stores a block of a piece that was in progress.
C31_DiscardStray ==
    [][ /\ \A i \in DOMAIN Pieces :
              \/ i \in InProgress
              \/ /\ Pieces'[i].Blocks = Pieces[i].Blocks
                 /\ Pieces'[i].Downloaded = Pieces[i].Downloaded
                 /\ \/ Pieces'[i].Requested \subseteq Pieces[i].Requested
                    \/ i \in InProgress'
        /\ Stats'.Downloaded # Stats.Downloaded
              => \E i \in InProgress :
                    Pieces'[i].Downloaded # Pieces[i].Downloaded ]_vars

----------------------------------------------------------------------------
\* C32: a piece's Downloaded counter equals the sum of the lengths of its
\* blocks that hold data, so it lies between 0 and Length, and IsComplete
\* is true exactly when every block holds data.
C32_ByteAccounting ==
    \A i \in DOMAIN Pieces :
        LET pc == Pieces[i]
            held == {b \in BlockIdx(pc) : pc.Blocks[b + 1] # NoData}
            lost == BlockIdx(pc) \ held
            lostBytes[S \in SUBSET lost] ==
                IF S = {} THEN 0
                ELSE LET b == CHOOSE x \in S : TRUE IN
                     BlockLength(pc.Length, b) + lostBytes[S \ {b}]
        IN  /\ pc.Downloaded = pc.Length - lostBytes[lost]
            /\ pc.Downloaded >= 0
            /\ pc.Downloaded <= pc.Length
            /\ IsComplete(pc) <=> held = BlockIdx(pc)

----------------------------------------------------------------------------
\* C33: the Completed counter equals the number of indices in Downloaded,
\* which equals the number of pieces whose state is Complete, so the piece
\* manager's IsComplete holds exactly when every piece is in Downloaded.
C33_CompletedCount ==
    /\ Completed = Cardinality(Downloaded)
    /\ Cardinality(Downloaded) =
          Cardinality({i \in DOMAIN Pieces : Pieces[i].State = "Complete"})
    /\ PmIsComplete(St) <=> Downloaded = DOMAIN Pieces

----------------------------------------------------------------------------
\* C34: the pieces with an assigned session, the pieces with a deadline and
\* the piece manager's in-progress set are the same set.
C34_Bookkeeping ==
    /\ DOMAIN activePieces = DOMAIN pieceTimeouts
    /\ DOMAIN activePieces = InProgress

----------------------------------------------------------------------------
\* C35: a piece is assigned only to a session that has it: the session
\* recorded as responsible for a piece announced that piece.
C35_AssignedHasPiece ==
    \A p \in DOMAIN activePieces : HasPiece(St, activePieces[p], p)

----------------------------------------------------------------------------
\* C36: the first message a peer sends after the handshake takes effect on
\* the session: after a bitfield HasPiece holds for every set bit, after an
\* unchoke the session is unchoked, after have(i) HasPiece(i) holds.
C36_FirstMessageKept ==
    \A a \in Sessions :
        dial[a].stage = "session" =>
            /\ \A i \in FirstPieces(dial[a].first, torrent) : HasPiece(St, a, i)
            /\ dial[a].first = "unchoke" => ~IsChoked(St, a)

----------------------------------------------------------------------------
\* C37: when a fully received piece fails verification (a step that stores
\* a block and takes the piece out of the assigned-session map without
\* making it downloaded), the piece returns to Missing with no assigned
\* session, and a session that could supply it is closed and removed from
\* the pool.
C37_DropBadPeer ==
    [][ \A p \in DOMAIN activePieces :
          ( /\ Stats'.Downloaded > Stats.Downloaded
            /\ p \notin DOMAIN activePieces'
            /\ p \notin Downloaded' )
          => /\ p \in Missing'
             /\ p \notin InProgress'
             /\ \E a \in Sessions :
                   /\ p \in sess[a].onPiece
                   /\ a \notin Sessions'
                   /\ ~conn'[a].open ]_vars

----------------------------------------------------------------------------
\* C38: a storage write error stops the download, and the piece whose write
\* failed is not left counted as downloaded: every piece in Downloaded has
\* been persisted, and once a piece is counted without being persisted no
\* later step selects, requests or completes a piece.
C38_WriteErrorFatal ==
    [][ /\ Downloaded' \subseteq disk'
        /\ ~(Downloaded \subseteq disk)
              => /\ InProgress' \subseteq InProgress
                 /\ Downloaded' = Downloaded
                 /\ \A a \in Sessions : sess'[a].sent = sess[a].sent ]_vars

----------------------------------------------------------------------------
\* C39: AddBlock fails and leaves every piece as it was when the index is
\* out of range, when no block of the piece starts at the offset or when
\* the length differs from that block's length; otherwise it succeeds,
\* installs the data in exactly that block and changes no other block, no
\* requested flag, no state and no other piece.
C39_AddBlockLaw ==
    fnOut.stage = "called" =>
        LET i == fnOut.index
            before == fnOut.before
            hit == IF i \in DOMAIN before
                   THEN {b \in BlockIdx(before[i]) :
                            /\ BlockBegin(b) = fnOut.begin
                            /\ fnOut.len = BlockLength(before[i].Length, b)}
                   ELSE {}
        IN  IF hit = {}
            THEN ~fnOut.ok /\ Pieces = before
            ELSE /\ fnOut.ok
                 /\ \A j \in DOMAIN before \ {i} : Pieces[j] = before[j]
                 /\ \A b \in BlockIdx(before[i]) :
                       Pieces[i].Blocks[b + 1] =
                          IF b \in hit THEN {fnOut.val}
                          ELSE before[i].Blocks[b + 1]
                 /\ Pieces[i].Requested = before[i].Requested
                 /\ Pieces[i].State = before[i].State
                 /\ Pieces[i].Length = before[i].Length
                 /\ Cardinality(hit) = 1

\* both outcomes have happened on one piece: its first block holds data
\* from an earlier call and the last call, with a wrong length for the
\* second block, was refused
C39_Reached ==
    /\ fnOut.stage = "called"
    /\ ~fnOut.ok
    /\ fnOut.index = 0
    /\ fnOut.begin = BlockSize
    /\ fnOut.len = 1
    /\ Pieces[0].Blocks[1] # NoData
    /\ Pieces[0].Blocks[2] = NoData

----------------------------------------------------------------------------
\* C40: with the bitfields of the unchoked sessions, PickPiece has one
\* possible result: among the pieces that are neither downloaded nor in
\* progress and that some session has, the one of least availability and,
\* among those, of least index; nil when there is no such piece.
C40_RarestFirst ==
    LET unchoked == GetUnchokedSessions(St)
        bitfields == [a \in unchoked |->
                         {i \in DOMAIN Pieces : HasPiece(St, a, i)}]
        count(i) == Cardinality({a \in unchoked : i \in bitfields[a]})
        eligible == {i \in DOMAIN Pieces :
                        /\ i \notin Downloaded
                        /\ i \notin InProgress
                        /\ count(i) > 0}
        rarest == {i \in eligible : \A j \in eligible : count(i) <= count(j)}
        want == IF eligible = {} THEN -1
                ELSE CHOOSE i \in rarest : \A j \in rarest : i <= j
    IN  \A r \in PickPiece(St, bitfields) : r.piece = want

====
